---- MODULE Spec2Model ----
(***************************************************************************)
(* Double planetary gear-train tools of slvsx-cli (src/tools/*.py).        *)
(*                                                                         *)
(* Number formats.  The tools compute in binary floating point; here every *)
(* quantity is a fixed-point integer:                                      *)
(*   angles and phases   millidegrees (1 = 0.001 degree)                   *)
(*   cos / sin values    multiples of 1/TrigScale                          *)
(*   solver lengths      millimetres (module is 2.0 in every solver        *)
(*                       function, so every radius teeth*module/2 is an    *)
(*                       integer number of millimetres)                    *)
(*   document lengths    hundredths of a millimetre (the emitted documents *)
(*                       store round(x, 2))                                *)
(* A quotient is rounded to the resolution of its format exactly where the *)
(* code rounds a floating-point quotient to the resolution of a double.    *)
(***************************************************************************)
EXTENDS Integers, Sequences, FiniteSets, TLC

VARIABLES
    pc,        \* which script / step the run is at
    cfg,       \* the configuration (S, I, O, R, n) under evaluation
    out,       \* the value returned by the function that ran last
    demands,   \* phase demands handed to an alignment validator
    sweep,     \* loop state of the exhaustive search
    doc        \* the gear-train document written by the search, and its report

vars == <<pc, cfg, out, demands, sweep, doc>>

None == [tool |-> "none"]

-----------------------------------------------------------------------------
(* Bounds of the model *)

\* teeth counts are drawn as multiples of ToothStep: S <= ToothStep*MaxSunK ...
MaxSunK == 5
MaxInnerK == 3
MaxOuterK == 4
MaxRingK == 13
\* demands handed to a validator lie up to MaxShift tooth periods past the
\* last-but-one tooth of the ring
MaxShift == 2
\* the evaluation budget max_tests of the exhaustive search, scaled down from
\* 50000 to below the number of candidates of the modelled ranges
MaxTests == 150
\* sun teeth of the triangular layouts: ToothStep*3 .. ToothStep*MaxTriSunK
MaxTriSunK == 6

-----------------------------------------------------------------------------
(* Program constants *)

module == 2             \* mm per tooth, hard-wired in every solver function
ToothStep == 6          \* the sweeps step sun and ring teeth by 6
FullTurn == 360000      \* 360 degrees
HalfTurn == 180000      \* 180 degrees

-----------------------------------------------------------------------------
(* Arithmetic helpers: the float operations of the tools in fixed point *)

Abs(x) == IF x < 0 THEN -x ELSE x

\* x / y rounded to the nearest unit of the format (y > 0)
RoundDiv(x, y) == (2 * x + y) \div (2 * y)

\* cos(d degrees) * TrigScale for d = 0..90
CosTable ==
  << 100000, 99985, 99939, 99863, 99756, 99619, 99452, 99255, 99027, 98769,
     98481, 98163, 97815, 97437, 97030, 96593, 96126, 95630, 95106, 94552,
     93969, 93358, 92718, 92050, 91355, 90631, 89879, 89101, 88295, 87462,
     86603, 85717, 84805, 83867, 82904, 81915, 80902, 79864, 78801, 77715,
     76604, 75471, 74314, 73135, 71934, 70711, 69466, 68200, 66913, 65606,
     64279, 62932, 61566, 60182, 58779, 57358, 55919, 54464, 52992, 51504,
     50000, 48481, 46947, 45399, 43837, 42262, 40674, 39073, 37461, 35837,
     34202, 32557, 30902, 29237, 27564, 25882, 24192, 22495, 20791, 19081,
     17365, 15643, 13917, 12187, 10453, 8716, 6976, 5234, 3490, 1745, 0 >>

\* resolution of cos / sin values: cos(0) in the table
TrigScale == CosTable[1]

\* cos on the first quadrant, r in 0..90000 millidegrees, linear between
\* table entries (rounded down, so that only cos(0) is 1)
CosQuadrant(r) ==
    LET d == r \div 1000
        f == r % 1000
    IN  IF f = 0 THEN CosTable[d + 1]
        ELSE CosTable[d + 1]
                - ((CosTable[d + 1] - CosTable[d + 2]) * f + 999) \div 1000

\* math.cos(math.radians(t)) for any angle t in millidegrees
CosMdeg(t) ==
    LET r == t % FullTurn
        s == IF r > HalfTurn THEN FullTurn - r ELSE r
    IN  IF s > 90000 THEN -CosQuadrant(HalfTurn - s) ELSE CosQuadrant(s)

\* math.sin(math.radians(t))
SinMdeg(t) == CosMdeg(t - 90000)

RECURSIVE AcosSearch(_, _, _, _)
AcosSearch(num, den, lo, hi) ==
    IF hi - lo <= 1
    THEN IF CosMdeg(hi) * den >= num * TrigScale THEN hi ELSE lo
    ELSE LET mid == (lo + hi) \div 2
         IN  IF CosMdeg(mid) * den >= num * TrigScale
             THEN AcosSearch(num, den, mid, hi)
             ELSE AcosSearch(num, den, lo, mid)

\* math.acos(num/den) * 180 / math.pi in millidegrees, for |num| <= den
AcosMdeg(num, den) == AcosSearch(num, den, 0, HalfTurn)

\* largest t in lo..hi with sin(t) * x <= cos(t) * y, for x, y >= 0
RECURSIVE AtanSearch(_, _, _, _)
AtanSearch(y, x, lo, hi) ==
    IF hi - lo <= 1
    THEN IF SinMdeg(hi) * x <= CosMdeg(hi) * y THEN hi ELSE lo
    ELSE LET mid == (lo + hi) \div 2
         IN  IF SinMdeg(mid) * x <= CosMdeg(mid) * y
             THEN AtanSearch(y, x, mid, hi)
             ELSE AtanSearch(y, x, lo, mid)

\* math.atan2(y, x) * 180 / math.pi in millidegrees, in (-180000, 180000];
\* y and x are first brought below 2^31 / TrigScale
Atan2Mdeg(y, x) ==
    LET m == IF Abs(x) > Abs(y) THEN Abs(x) ELSE Abs(y)
        k == m \div 20000 + 1
        ay == Abs(y) \div k
        ax == Abs(x) \div k
        t == IF ay = 0 THEN 0
             ELSE IF ax = 0 THEN 90000
             ELSE AtanSearch(ay, ax, 0, 90000)
        u == IF x < 0 THEN HalfTurn - t ELSE t
    IN  IF y < 0 THEN -u ELSE u

RECURSIVE SqrtSearch(_, _, _)
SqrtSearch(x, lo, hi) ==
    IF hi - lo <= 1 THEN lo
    ELSE LET mid == (lo + hi) \div 2
         IN  IF mid * mid <= x THEN SqrtSearch(x, mid, hi)
             ELSE SqrtSearch(x, lo, mid)

\* math.sqrt(x) rounded to the nearest unit, 0 <= x < 2^30
Sqrt(x) ==
    LET r == SqrtSearch(x, 0, 32768)
    IN  IF x - r * r > r THEN r + 1 ELSE r

-----------------------------------------------------------------------------
(* Configurations: tooth counts S, I, O, R and the number of planets n *)

\* sun teeth: even, the multiples of ToothStep and the even number below each
SunTeeth == { ToothStep * k - d : k \in 1..MaxSunK, d \in {0, 2} }
InnerTeeth == { ToothStep * k : k \in 1..MaxInnerK }
OuterTeeth == { ToothStep * k : k \in 1..MaxOuterK }
\* ring teeth: the multiples of ToothStep and their predecessors (71, 72, ...)
RingTeeth == { ToothStep * k - d : k \in 1..MaxRingK, d \in {0, 1} }
PlanetCounts == {3, 6}

Configs ==
    [S : SunTeeth, I : InnerTeeth, O : OuterTeeth, R : RingTeeth, n : PlanetCounts]

-----------------------------------------------------------------------------
(* Gear geometry of the solver functions (module = 2.0) *)

\* teeth * module / 2
Radius(teeth) == (teeth * module) \div 2

\* inner_orbit = sun_radius + inner_radius
InnerOrbit(c) == Radius(c.S) + Radius(c.I)
\* outer_orbit_for_ring / ring_orbit = ring_radius - outer_radius
RingOrbit(c) == Radius(c.R) - Radius(c.O)
\* mesh_distance = inner_radius + outer_radius
MeshDistance(c) == Radius(c.I) + Radius(c.O)

\* numerator and denominator of
\* cos_offset = (inner_orbit**2 + mesh_distance**2 - ring_orbit**2)
\*              / (2 * inner_orbit * mesh_distance)
CosNum(c) ==
    InnerOrbit(c) * InnerOrbit(c) + MeshDistance(c) * MeshDistance(c)
        - RingOrbit(c) * RingOrbit(c)
CosDen(c) == 2 * InnerOrbit(c) * MeshDistance(c)

\* abs(cos_offset) > 1
CosOutOfRange(c) == Abs(CosNum(c)) > CosDen(c)

\* offset_angle = math.acos(cos_offset) * 180 / math.pi
OffsetAngle(c) == AcosMdeg(CosNum(c), CosDen(c))

\* a check that forgets the sun: R % num_planets != 0
AssemblyFailsRingOnly(S, R, n) == R % n /= 0

\* (S + R) % num_planets != 0
AssemblyFails(S, R, n) == (S + R) % n /= 0

\* the two triangle-inequality tests of check_geometry / analyze_6planet_system
TriangleFails(c) ==
    \/ RingOrbit(c) > InnerOrbit(c) + MeshDistance(c)
    \/ RingOrbit(c) < Abs(InnerOrbit(c) - MeshDistance(c))

-----------------------------------------------------------------------------
(* exhaustive_phase_search.py: phase propagation *)

\* calculate_gear_phase(teeth1, teeth2, angle_deg):
\*   (angle_deg * teeth1/teeth2 + (360/teeth2)/2) % 360
calculate_gear_phase(teeth1, teeth2, angle) ==
    (RoundDiv(angle * teeth1, teeth2) + RoundDiv(HalfTurn, teeth2)) % FullTurn

\* inner_angles = [i * 360/num_planets for i in range(num_planets)], 1-based
InnerAngle(i, n) == RoundDiv((i - 1) * FullTurn, n)

\* the sign of the offset angle the propagation uses (line 62: plus)
PropagationSign == 1

\* the body of the loop over the inner planets, lines 56-69
InnerPhase(c, i) == calculate_gear_phase(c.S, c.I, InnerAngle(i, c.n))
OuterAngle(c, i, offset) == InnerAngle(i, c.n) + PropagationSign * offset
OuterPhase(c, i, offset) ==
    (InnerPhase(c, i) + calculate_gear_phase(c.I, c.O, offset)) % FullTurn
RingDemand(c, i, offset) ==
    (OuterPhase(c, i, offset)
        - calculate_gear_phase(c.O, c.R, OuterAngle(c, i, offset))) % FullTurn

\* simulate_phase_propagation(S, I, O, R, num_planets)
simulate_phase_propagation(c) ==
    IF AssemblyFails(c.S, c.R, c.n)
    THEN [tool |-> "simulate", ok |-> FALSE, reason |-> "assembly"]
    ELSE IF CosOutOfRange(c)
    THEN [tool |-> "simulate", ok |-> FALSE, reason |-> "geometry"]
    ELSE LET offset == OffsetAngle(c)
         IN  [tool |-> "simulate", ok |-> TRUE, reason |-> "valid",
              offset_angle |-> offset,
              inner |-> [i \in 1..c.n |-> InnerPhase(c, i)],
              outer |-> [i \in 1..c.n |-> OuterPhase(c, i, offset)],
              ring_demands |-> [i \in 1..c.n |-> RingDemand(c, i, offset)]]

-----------------------------------------------------------------------------
(* find_working_tooth_counts.py and find_6planet_solution.py *)

\* angle < 30 or angle > 150
AngleTooExtreme(angle) == angle < 30000 \/ angle > 150000

\* check_geometry(S, I, O, R, num_planets)
check_geometry(c) ==
    IF AssemblyFails(c.S, c.R, c.n)
    THEN [tool |-> "check_geometry", ok |-> FALSE, reason |-> "assembly"]
    ELSE IF TriangleFails(c)
    THEN [tool |-> "check_geometry", ok |-> FALSE, reason |-> "triangle"]
    ELSE IF CosOutOfRange(c)
    THEN [tool |-> "check_geometry", ok |-> FALSE, reason |-> "cosine"]
    ELSE IF AngleTooExtreme(OffsetAngle(c))
    THEN [tool |-> "check_geometry", ok |-> FALSE, reason |-> "angle",
          offset_angle |-> OffsetAngle(c)]
    ELSE [tool |-> "check_geometry", ok |-> TRUE, reason |-> "valid",
          offset_angle |-> OffsetAngle(c)]

\* analyze_6planet_system(S, I, O, R): the planet count is fixed to 6
analyze_6planet_system(c) ==
    IF AssemblyFails(c.S, c.R, 6)
    THEN [tool |-> "analyze_6planet", ok |-> FALSE, reason |-> "assembly"]
    ELSE IF TriangleFails(c)
    THEN [tool |-> "analyze_6planet", ok |-> FALSE, reason |-> "triangle"]
    ELSE IF CosOutOfRange(c)
    THEN [tool |-> "analyze_6planet", ok |-> FALSE, reason |-> "cosine"]
    ELSE [tool |-> "analyze_6planet", ok |-> TRUE, reason |-> "valid",
          inner_orbit |-> InnerOrbit(c), outer_orbit |-> RingOrbit(c),
          mesh_distance |-> MeshDistance(c), offset_angle |-> OffsetAngle(c)]

-----------------------------------------------------------------------------
(* validate_gear_system.py *)

\* assembly_value = (sun_teeth + ring_teeth) / num_planets, a float quotient,
\* in thousandths
AssemblyValue(S, R, n) == RoundDiv((S + R) * 1000, n)
\* is_integer = assembly_value == int(assembly_value)
IsInteger(S, R, n) ==
    AssemblyValue(S, R, n) = (AssemblyValue(S, R, n) \div 1000) * 1000

\* neighbor distance 2 * orbit * sin(radians((360/n)/2)) > 2 * (r + module),
\* both sides scaled by TrigScale
NeighborsClear(orbit, r, n) ==
    2 * orbit * SinMdeg(RoundDiv(RoundDiv(FullTurn, n), 2))
        > 2 * (r + module) * TrigScale

\* validate_planetary_gear_system: the returned boolean
validate_planetary_gear_system(c) ==
    [tool |-> "validate",
     ok |-> /\ IsInteger(c.S, c.R, c.n)
            /\ NeighborsClear(InnerOrbit(c), Radius(c.I), c.n)
            /\ NeighborsClear(RingOrbit(c), Radius(c.O), c.n),
     reason |-> IF IsInteger(c.S, c.R, c.n) THEN "neighbors" ELSE "assembly"]

-----------------------------------------------------------------------------
(* Outer-planet placement: find_valid_double_planetary.py and               *)
(* find_6planet_solution.py.  Positions are in hundredths of a millimetre.  *)

\* calculate_position(radius, angle_deg) = [radius*cos, radius*sin]
calculate_position(radius, angle) ==
    << RoundDiv(radius * CosMdeg(angle), TrigScale \div 100),
       RoundDiv(radius * SinMdeg(angle), TrigScale \div 100) >>

\* math.sqrt((ox-ix)**2 + (oy-iy)**2)
Distance(p, q) ==
    Sqrt((p[1] - q[1]) * (p[1] - q[1]) + (p[2] - q[2]) * (p[2] - q[2]))

\* one pass of the body of "for sign in [1, -1]" (lines 138-146): the outer
\* planet on the ring orbit at inner_angle + sign*offset_angle
TryOffset(c, i, n, sign) ==
    LET inner_angle == InnerAngle(i, n)
        actual_offset == sign * OffsetAngle(c)
        outer_angle == inner_angle + actual_offset
        position == calculate_position(RingOrbit(c), outer_angle)
    IN  [index |-> i,
         position |-> position,
         angle |-> outer_angle % FullTurn,
         orbit |-> RingOrbit(c),
         offset_from_inner |-> actual_offset,
         dist_to_inner |->
             Distance(position, calculate_position(InnerOrbit(c), inner_angle))]

\* abs(dist_to_inner - mesh_distance) < 0.5
PlacementAccepted(c, t) == Abs(t.dist_to_inner - 100 * MeshDistance(c)) < 50

\* the signs visited for one inner planet: +1, and -1 only when +1 was not
\* accepted (the loop breaks at the first accepted sign)
SignsTried(c, i, n) ==
    IF CosOutOfRange(c) THEN <<>>
    ELSE IF PlacementAccepted(c, TryOffset(c, i, n, 1))
    THEN << TryOffset(c, i, n, 1) >>
    ELSE << TryOffset(c, i, n, 1), TryOffset(c, i, n, -1) >>

\* the entries appended to outer_configs for one inner planet
Accepted(c, tried) ==
    IF tried /= <<>> /\ PlacementAccepted(c, tried[Len(tried)])
    THEN << tried[Len(tried)] >>
    ELSE <<>>

\* the loop "for i, inner_angle in enumerate(inner_angles)", lines 108-162,
\* with inner_angles = [0, 120, 240]
find_outer_placements(c) ==
    LET t1 == SignsTried(c, 1, 3)
        t2 == SignsTried(c, 2, 3)
        t3 == SignsTried(c, 3, 3)
    IN  [tool |-> "find_valid_double_planetary",
         ok |-> ~CosOutOfRange(c),
         tried |-> t1 \o t2 \o t3,
         outer_configs |-> Accepted(c, t1) \o Accepted(c, t2) \o Accepted(c, t3)]

\* find_6planet_solution.py lines 144-157: every outer planet at the positive
\* offset from its inner planet, inner_angles = [i * 60 for i in range(6)]
place_6planet_outers(c) ==
    IF ~analyze_6planet_system(c).ok
    THEN [tool |-> "find_6planet_solution", ok |-> FALSE]
    ELSE [tool |-> "find_6planet_solution", ok |-> TRUE,
          tried |-> [i \in 1..6 |-> TryOffset(c, i, 6, 1)]]

-----------------------------------------------------------------------------
(* Alignment validators: analyze_phase_modulo.py and check_phase_alignment  *)
(* of exhaustive_phase_search.py                                            *)

\* tooth_period = 360 / teeth, a float quotient
ToothPeriod(teeth) == RoundDiv(FullTurn, teeth)

\* (phase % 360) % tooth_period
Normalize(phase, teeth) == (phase % FullTurn) % ToothPeriod(teeth)

Normalized(phases, teeth) ==
    [i \in 1..Len(phases) |-> Normalize(phases[i], teeth)]

Max(seq) == CHOOSE x \in { seq[i] : i \in 1..Len(seq) } :
                \A j \in 1..Len(seq) : seq[j] <= x
Min(seq) == CHOOSE x \in { seq[i] : i \in 1..Len(seq) } :
                \A j \in 1..Len(seq) : seq[j] >= x

\* variance = max(normalized) - min(normalized)
Variance(normalized) == Max(normalized) - Min(normalized)

\* sorted(normalized)
RECURSIVE Sorted(_)
Sorted(seq) ==
    IF seq = <<>> THEN <<>>
    ELSE LET k == CHOOSE i \in 1..Len(seq) : \A j \in 1..Len(seq) : seq[i] <= seq[j]
         IN  << seq[k] >> \o Sorted([i \in 1..(Len(seq) - 1) |->
                                        IF i < k THEN seq[i] ELSE seq[i + 1]])

RECURSIVE Sum(_)
Sum(seq) == IF seq = <<>> THEN 0 ELSE seq[1] + Sum(Tail(seq))

\* intervals between consecutive sorted phases, the last one wrapping to the
\* first: (sorted_norm[next_i] - sorted_norm[i]) % tooth_period
Intervals(sorted_norm, teeth) ==
    [i \in 1..Len(sorted_norm) |->
        (sorted_norm[(i % Len(sorted_norm)) + 1] - sorted_norm[i])
            % ToothPeriod(teeth)]

\* interval_variance = max(abs(i - avg_interval) for i in intervals)
IntervalVariance(intervals) ==
    LET avg_interval == RoundDiv(Sum(intervals), Len(intervals))
    IN  Max([i \in 1..Len(intervals) |-> Abs(intervals[i] - avg_interval)])

\* the number of demands for which the regular-spacing check is made
PatternLength == 6

\* analyze_phase_equivalence(phase_demands, num_teeth): True when the
\* variance is below 10 % of the tooth period, or when there are six demands
\* at regular intervals; False otherwise
analyze_phase_equivalence(phase_demands, num_teeth) ==
    LET normalized == Normalized(phase_demands, num_teeth)
        tolerance == RoundDiv(ToothPeriod(num_teeth), 10)
    IN  [tool |-> "analyze_phase_equivalence",
         input |-> phase_demands, teeth |-> num_teeth,
         result |->
            IF Variance(normalized) < tolerance THEN TRUE
            ELSE IF Len(phase_demands) = PatternLength
                    /\ IntervalVariance(Intervals(Sorted(normalized), num_teeth))
                          < tolerance
            THEN TRUE
            ELSE FALSE]

\* the default of the tolerance parameter of check_phase_alignment: 0.1 degree
DefaultTolerance == 100

\* check_phase_alignment(phases, R, tolerance=0.1) for phases with the ring
\* demands ring_demands: (aligned, variance, normalized)
check_phase_alignment(ring_demands, R) ==
    LET normalized == Normalized(ring_demands, R)
        variance == Variance(normalized)
        half_tooth == RoundDiv(ToothPeriod(R), 2)
        half_tooth_aligned ==
            \A i \in 1..Len(normalized) :
                \/ Abs(normalized[i] - half_tooth) < DefaultTolerance
                \/ Abs(normalized[i]) < DefaultTolerance
    IN  [tool |-> "check_phase_alignment",
         input |-> ring_demands, teeth |-> R,
         result |-> (variance < DefaultTolerance \/ half_tooth_aligned),
         variance |-> variance,
         normalized |-> normalized]

-----------------------------------------------------------------------------
(* find_phase_compatible_triangular.py: phase propagation with triangular  *)
(* meshing (six planets, each outer planet between two inner planets)      *)

\* circular_mean(angles): atan2 of the summed sines and cosines, % 360
circular_mean(angles) ==
    LET sin_sum == Sum([i \in 1..Len(angles) |-> SinMdeg(angles[i])])
        cos_sum == Sum([i \in 1..Len(angles) |-> CosMdeg(angles[i])])
    IN  Atan2Mdeg(sin_sum, cos_sum) % FullTurn

\* inner_angles = [i * 60 for i in range(6)], 1-based
TriInnerAngle(i) == (i - 1) * 60000
\* outer_angles = [(i * 60 + 30) for i in range(6)], 1-based
TriOuterAngle(i) == (i - 1) * 60000 + 30000

\* phase = (angle * S / I + 180 / I) % 360
TriInnerPhase(c, i) ==
    (RoundDiv(TriInnerAngle(i) * c.S, c.I) + RoundDiv(HalfTurn, c.I)) % FullTurn

\* the demand of inner planet k on outer planet i:
\* (inner_phases[k] + angle_diff * I / O + 180 / O) % 360
TriOuterDemand(c, i, k) ==
    (TriInnerPhase(c, k)
        + RoundDiv((TriOuterAngle(i) - TriInnerAngle(k)) * c.I, c.O)
        + RoundDiv(HalfTurn, c.O)) % FullTurn

\* the two demands on outer planet i, from inner i and inner (i + 1) % 6
TriOuterDemands(c, i) ==
    << TriOuterDemand(c, i, i), TriOuterDemand(c, i, (i % 6) + 1) >>

\* avg_phase = circular_mean([phase1, phase2])
TriOuterPhase(c, i) == circular_mean(TriOuterDemands(c, i))

\* ring_phase = (outer_phase - outer_angles[i] * O / R + 180 / R) % 360
TriRingDemand(c, i) ==
    (TriOuterPhase(c, i) - RoundDiv(TriOuterAngle(i) * c.O, c.R)
        + RoundDiv(HalfTurn, c.R)) % FullTurn

\* all_same = all(abs(n - first_norm) < 0.5 for n in normalized)
AllSame(normalized) ==
    \A i \in 1..Len(normalized) : Abs(normalized[i] - normalized[1]) < 500

\* np.std(normalized) < 0.1, for values within 0.5 degree of the first:
\* n * sum(y^2) - sum(y)^2 < 0.1^2 * n^2 with y = normalized - first
StdBelowTenth(normalized) ==
    LET n == Len(normalized)
        y == [i \in 1..n |-> normalized[i] - normalized[1]]
    IN  n * Sum([i \in 1..n |-> y[i] * y[i]]) - Sum(y) * Sum(y)
            < 100 * 100 * n * n

\* calculate_phase_propagation(S, I, O, R)
calculate_phase_propagation(c) ==
    LET ring_demands == [i \in 1..6 |-> TriRingDemand(c, i)]
        normalized == [i \in 1..6 |-> ring_demands[i] % ToothPeriod(c.R)]
    IN  [tool |-> "calculate_phase_propagation",
         result |-> (AllSame(normalized) /\ StdBelowTenth(normalized)),
         input |-> ring_demands, teeth |-> c.R,
         inner |-> [i \in 1..6 |-> TriInnerPhase(c, i)],
         outer_demands |-> [i \in 1..6 |-> TriOuterDemands(c, i)],
         outer |-> [i \in 1..6 |-> TriOuterPhase(c, i)],
         ring_demands |-> ring_demands]

-----------------------------------------------------------------------------
(* Triangular construction: find_valid_triangular.py,                      *)
(* find_phase_compatible_triangular.py, find_safe_triangular.py and        *)
(* calculate_triangular_positions.py.  Lengths in hundredths of a mm.      *)

\* math.sin(math.pi / 6): the double 0.49999999999999994, just below 1/2; in
\* this format the value just below 1/2
SinPiSixth == TrigScale \div 2 - 1

\* half_base = inner_spacing / 2 = 2 * inner_radius * sin(pi/6) / 2
HalfBase(c) == RoundDiv(InnerOrbit(c) * 100 * SinPiSixth, TrigScale)

\* mesh_distance <= half_base, decided at the resolution of the double
Unreachable(c) == MeshDistance(c) * TrigScale <= InnerOrbit(c) * SinPiSixth

\* h = math.sqrt(mesh_distance**2 - half_base**2)
TriHeight(c) ==
    LET m == 100 * MeshDistance(c)
        r == m * m - HalfBase(c) * HalfBase(c)
    IN  IF r <= 0 THEN 0 ELSE Sqrt(r)

\* mid_radius = inner_radius * math.cos(math.pi / 6)
MidRadius(c) == RoundDiv(InnerOrbit(c) * 100 * CosMdeg(30000), TrigScale)

\* outer_radius_actual = mid_radius + h
OuterRadiusActual(c) == MidRadius(c) + TriHeight(c)

\* min_sun_clearance = (S*module/2 + module) + (O*module/2 + module)
MinSunClearance(c) == 100 * (Radius(c.S) + module + Radius(c.O) + module)

\* ring_error = abs(outer_radius_actual - outer_radius_for_ring)
RingError(c) == Abs(OuterRadiusActual(c) - 100 * RingOrbit(c))

\* ring_error < 2.0 in find_valid_triangular.py
ValidRingTolerance == 200
\* ring_error < 1.0 in find_phase_compatible_triangular.py and
\* find_safe_triangular.py
RingTolerance == 100

\* check_triangular_geometry(S, I, O, R) of the file `tool`, which accepts a
\* ring error below `tolerance`
check_triangular_geometry(c, tool, tolerance) ==
    IF Unreachable(c)
    THEN [tool |-> tool, ok |-> FALSE, reason |-> "unreachable",
          outer_radius_actual |-> 0, outer_radius_for_ring |-> 0, h |-> 0]
    ELSE [tool |-> tool,
          ok |-> (RingError(c) < tolerance
                    /\ OuterRadiusActual(c) > MinSunClearance(c)),
          reason |-> "checked",
          outer_radius_actual |-> OuterRadiusActual(c),
          outer_radius_for_ring |-> 100 * RingOrbit(c),
          h |-> TriHeight(c)]

\* inner_ring_clearance = (R*module/2 - module)
\*                        - (inner_radius + I*module/2 + module)
InnerRingClearance(c) ==
    100 * ((Radius(c.R) - module) - (InnerOrbit(c) + Radius(c.I) + module))

\* check_safe_triangular_geometry(S, I, O, R)
check_safe_triangular_geometry(c) ==
    IF InnerRingClearance(c) < 200
    THEN [tool |-> "find_safe_triangular", ok |-> FALSE,
          reason |-> "ring_clearance",
          outer_radius_actual |-> 0, outer_radius_for_ring |-> 0, h |-> 0]
    ELSE check_triangular_geometry(c, "find_safe_triangular", RingTolerance)

\* inner_positions[i] of calculate_positions, 1-based
TriInnerPosition(c, i) == calculate_position(InnerOrbit(c), TriInnerAngle(i))

\* the radicand mesh_distance**2 - dist_to_mid**2 is negative: dist_to_mid,
\* computed from the rounded positions, comes out above the half chord
\* inner_radius / 2, so math.sqrt raises ValueError also when mesh_distance
\* equals the half chord
MathDomainError(c) == 2 * MeshDistance(c) <= InnerOrbit(c)

\* the body of the loop over range(6), lines 28-60: outer planet i
TriOuterPosition(c, i) ==
    LET inner1 == TriInnerPosition(c, i)
        inner2 == TriInnerPosition(c, (i % 6) + 1)
        mid_x == (inner1[1] + inner2[1]) \div 2
        mid_y == (inner1[2] + inner2[2]) \div 2
        dist_to_mid == Distance(inner1, <<mid_x, mid_y>>)
        m == 100 * MeshDistance(c)
        height == Sqrt(m * m - dist_to_mid * dist_to_mid)
        mid_dist == Distance(<<mid_x, mid_y>>, <<0, 0>>)
        dir_x == IF mid_dist > 0 THEN RoundDiv(mid_x * TrigScale, mid_dist)
                 ELSE CosMdeg(TriOuterAngle(i))
        dir_y == IF mid_dist > 0 THEN RoundDiv(mid_y * TrigScale, mid_dist)
                 ELSE SinMdeg(TriOuterAngle(i))
    IN  << mid_x + RoundDiv(dir_x * height, TrigScale),
           mid_y + RoundDiv(dir_y * height, TrigScale) >>

\* calculate_positions(S, I, O, R): the positions, or the ValueError raised
\* by math.sqrt
calculate_positions(c) ==
    IF MathDomainError(c)
    THEN [tool |-> "calculate_positions", ok |-> FALSE,
          reason |-> "unreachable", raised |-> "ValueError"]
    ELSE LET outer == [i \in 1..6 |-> TriOuterPosition(c, i)]
         IN  [tool |-> "calculate_positions", ok |-> TRUE, reason |-> "placed",
              raised |-> "none",
              inner_positions |-> [i \in 1..6 |-> TriInnerPosition(c, i)],
              outer_positions |-> outer,
              outer_orbit |-> [i \in 1..6 |-> Distance(outer[i], <<0, 0>>)]]

-----------------------------------------------------------------------------
(* detect_meshing_overlaps.py, on a document whose "$name" references the  *)
(* constraint solver has resolved.  Lengths in hundredths of a millimetre. *)

\* the solved document: every "$name" value replaced by parameters[name]
\* ([ref |-> name] models the string "$name", [value |-> v] a literal)
Resolve(parameters, v) ==
    IF "ref" \in DOMAIN v THEN parameters[v.ref] ELSE v.value

SolvedGear(parameters, gear) ==
    [gear EXCEPT !.teeth = Resolve(parameters, gear.teeth),
                 !.module = Resolve(parameters, gear.module)]

\* pitch_radius(gear) = teeth * module / 2
pitch_radius(gear) == (gear.teeth * gear.module) \div 2

\* outer_radius(gear): pitch - module for an internal gear, else pitch + module
outer_radius(gear) ==
    IF gear.internal THEN pitch_radius(gear) - gear.module
    ELSE pitch_radius(gear) + gear.module

\* a root circle one module, not 1.25 modules, from the pitch circle
RootOneModuleAway(gear) ==
    IF gear.internal THEN pitch_radius(gear) + gear.module
    ELSE pitch_radius(gear) - gear.module

\* root_radius(gear): pitch + 1.25 * module for an internal gear, else
\* pitch - 1.25 * module
root_radius(gear) ==
    IF gear.internal THEN pitch_radius(gear) + (5 * gear.module) \div 4
    ELSE pitch_radius(gear) - (5 * gear.module) \div 4

\* center_distance(g1, g2) squared
CenterDistanceSq(g1, g2) ==
    (g1.center[1] - g2.center[1]) * (g1.center[1] - g2.center[1])
        + (g1.center[2] - g2.center[2]) * (g1.center[2] - g2.center[2])

\* theoretical_center_distance(g1, g2)
theoretical_center_distance(g1, g2) ==
    IF g1.internal /\ ~g2.internal THEN Abs(pitch_radius(g1) - pitch_radius(g2))
    ELSE IF ~g1.internal /\ g2.internal
    THEN Abs(pitch_radius(g2) - pitch_radius(g1))
    ELSE pitch_radius(g1) + pitch_radius(g2)

\* dist_error = abs(actual_dist - expected_dist) > 0.1, decided on squares
CenterDistanceError(g1, g2) ==
    LET expected == theoretical_center_distance(g1, g2)
        actual_sq == CenterDistanceSq(g1, g2)
    IN  \/ actual_sq > (expected + 10) * (expected + 10)
        \/ expected > 10 /\ actual_sq < (expected - 10) * (expected - 10)

\* the printing clearance subtracted from the tip radius: 0.7 mm
TipClearance == 70
\* min_clearance of check_tooth_overlap: 0.5 mm
MinClearance == 50

\* get_tooth_positions(gear): the tooth tips at radius outer_radius - 0.7,
\* at angles 360 * i / teeth + phase
ToothTip(gear, i) ==
    LET angle == RoundDiv(FullTurn * i, gear.teeth) + gear.phase
        r == outer_radius(gear) - TipClearance
    IN  << gear.center[1] + RoundDiv(r * CosMdeg(angle), TrigScale),
           gear.center[2] + RoundDiv(r * SinMdeg(angle), TrigScale) >>

\* check_tooth_overlap(g1, g2): some pair of tips is closer than 0.5 mm
check_tooth_overlap(g1, g2) ==
    \E i \in 0..(g1.teeth - 1) :
        LET t1 == ToothTip(g1, i)
        IN  \E j \in 0..(g2.teeth - 1) :
                LET t2 == ToothTip(g2, j)
                IN  (t1[1] - t2[1]) * (t1[1] - t2[1])
                        + (t1[2] - t2[2]) * (t1[2] - t2[2])
                    < MinClearance * MinClearance

\* gears[gear['id']] = gear: a later entity of the same id replaces an earlier
GearById(entities, id) ==
    LET ks == { k \in 1..Len(entities) : entities[k].id = id }
    IN  entities[CHOOSE k \in ks : \A j \in ks : j <= k]

GearIds(entities) == { entities[k].id : k \in 1..Len(entities) }

\* the entries one meshing pair appends to the list overlaps
PairIssues(entities, constraint) ==
    IF constraint.gear1 \notin GearIds(entities)
            \/ constraint.gear2 \notin GearIds(entities)
    THEN <<>>
    ELSE LET g1 == GearById(entities, constraint.gear1)
             g2 == GearById(entities, constraint.gear2)
         IN  (IF CenterDistanceError(g1, g2)
              THEN << [kind |-> "center_distance",
                       gear1 |-> g1.id, gear2 |-> g2.id] >>
              ELSE <<>>)
             \o (IF check_tooth_overlap(g1, g2)
                 THEN << [kind |-> "tooth_overlap",
                          gear1 |-> g1.id, gear2 |-> g2.id] >>
                 ELSE <<>>)

RECURSIVE AllPairIssues(_, _, _)
AllPairIssues(entities, constraints, k) ==
    IF k > Len(constraints) THEN <<>>
    ELSE PairIssues(entities, constraints[k])
            \o AllPairIssues(entities, constraints, k + 1)

IsToothOverlap(issue) == issue.kind = "tooth_overlap"

\* detect_meshing_overlaps(json_file): overlaps + phase_errors, one phase
\* error entry for every tooth overlap
detect_meshing_overlaps(document) ==
    LET all == [k \in 1..Len(document.entities) |->
                    SolvedGear(document.parameters, document.entities[k])]
        entities == SelectSeq(all, LAMBDA e : e.type = "gear")
        meshing_pairs == SelectSeq(document.constraints,
                                   LAMBDA c : c.type = "mesh")
        overlaps == AllPairIssues(entities, meshing_pairs, 1)
        tooth == SelectSeq(overlaps, IsToothOverlap)
    IN  overlaps \o [k \in 1..Len(tooth) |->
                        [kind |-> "phase_error", gear1 |-> tooth[k].gear1,
                         gear2 |-> tooth[k].gear2]]

\* main(): exit status 1 when there are issues, 0 otherwise
detector_main(document) ==
    LET issues == detect_meshing_overlaps(document)
    IN  [tool |-> "detect_meshing_overlaps", issues |-> issues,
         exit_code |-> IF issues = <<>> THEN 0 ELSE 1]

-----------------------------------------------------------------------------
(* exhaustive_phase_search.py, the script body: sweep, ranking, emission   *)

\* the swept ranges, sampled: the first values of range(12, 49, 2), the ends
\* and the middle of range(6, 25) and of range(6, 31), all of range(2, 8)
num_planets_options == <<3, 6>>
sun_range == <<12, 14>>
inner_range == <<6, 15, 24>>
outer_range == <<6, 18, 30>>
R_multipliers == <<2, 3, 4, 5, 6, 7>>

\* if R > 120: continue
RingLimit == 120

\* the candidate the loop indexes point at
Candidate(w) ==
    [S |-> sun_range[w.s], I |-> inner_range[w.i], O |-> outer_range[w.o],
     R |-> sun_range[w.s] + R_multipliers[w.m] * inner_range[w.i],
     n |-> num_planets_options[w.np]]

LastCandidate(w) ==
    /\ w.m = Len(R_multipliers) /\ w.o = Len(outer_range)
    /\ w.i = Len(inner_range) /\ w.s = Len(sun_range)
    /\ w.np = Len(num_planets_options)

\* the loop indexes after one more iteration: R_multiplier innermost, then
\* product(sun_range, inner_range, outer_range), num_planets outermost
Advance(w) ==
    IF w.m < Len(R_multipliers) THEN [w EXCEPT !.m = w.m + 1]
    ELSE IF w.o < Len(outer_range) THEN [w EXCEPT !.m = 1, !.o = w.o + 1]
    ELSE IF w.i < Len(inner_range)
    THEN [w EXCEPT !.m = 1, !.o = 1, !.i = w.i + 1]
    ELSE IF w.s < Len(sun_range)
    THEN [w EXCEPT !.m = 1, !.o = 1, !.i = 1, !.s = w.s + 1]
    ELSE [w EXCEPT !.m = 1, !.o = 1, !.i = 1, !.s = 1, !.np = w.np + 1]

\* the config dictionary appended for an aligned candidate
ValidConfig(c, phases, alignment) ==
    [S |-> c.S, I |-> c.I, O |-> c.O, R |-> c.R, n |-> c.n,
     offset_angle |-> phases.offset_angle,
     variance |-> alignment.variance,
     phases |-> [inner |-> phases.inner, outer |-> phases.outer,
                 ring_demands |-> phases.ring_demands]]

\* valid_configs.sort(key=lambda c: c['variance']): a stable sort
RECURSIVE InsertByVariance(_, _)
InsertByVariance(sorted, config) ==
    IF sorted = <<>> THEN <<config>>
    ELSE IF sorted[Len(sorted)].variance <= config.variance
    THEN Append(sorted, config)
    ELSE Append(InsertByVariance(SubSeq(sorted, 1, Len(sorted) - 1), config),
                sorted[Len(sorted)])

RECURSIVE SortByVariance(_, _)
SortByVariance(configs, k) ==
    IF k = 0 THEN <<>>
    ELSE InsertByVariance(SortByVariance(configs, k - 1), configs[k])

\* a gear entity of the emitted document
Gear(id, center, teeth, phase, internal) ==
    [type |-> "gear", id |-> id, center |-> center,
     teeth |-> [ref |-> teeth], module |-> [ref |-> "module"],
     pressure_angle |-> [ref |-> "pressure_angle"],
     phase |-> phase, internal |-> internal]

\* [round(orbit * cos(angle), 2), round(orbit * sin(angle), 2), 0]
RoundedCenter(orbit, angle) ==
    << RoundDiv(orbit * 100 * CosMdeg(angle), TrigScale),
       RoundDiv(orbit * 100 * SinMdeg(angle), TrigScale), 0 >>

PlanetId(kind, j) == <<kind, j>>

\* the two entities the loop over range(best['n']) appends for planet j
PlanetEntities(best, j) ==
    LET inner_angle == InnerAngle(j, best.n)
        outer_angle == inner_angle + best.offset_angle
    IN  << Gear(PlanetId("inner", j),
                RoundedCenter(InnerOrbit(best), inner_angle),
                "inner_teeth", best.phases.inner[j], FALSE),
           Gear(PlanetId("outer", j),
                RoundedCenter(RingOrbit(best), outer_angle),
                "outer_teeth", best.phases.outer[j], FALSE) >>

\* the three mesh constraints it appends for planet j
PlanetConstraints(j) ==
    << [type |-> "mesh", gear1 |-> PlanetId("sun", 0),
        gear2 |-> PlanetId("inner", j)],
       [type |-> "mesh", gear1 |-> PlanetId("inner", j),
        gear2 |-> PlanetId("outer", j)],
       [type |-> "mesh", gear1 |-> PlanetId("ring", 0),
        gear2 |-> PlanetId("outer", j)] >>

RECURSIVE Planets(_, _)
Planets(best, j) ==
    IF j > best.n THEN [entities |-> <<>>, constraints |-> <<>>]
    ELSE LET rest == Planets(best, j + 1)
         IN  [entities |-> PlanetEntities(best, j) \o rest.entities,
              constraints |-> PlanetConstraints(j) \o rest.constraints]

\* "parameters": module, pressure_angle (20 degrees) and the four tooth counts
Parameters(c) ==
    [module |-> 100 * module, pressure_angle |-> 20000, sun_teeth |-> c.S,
     inner_teeth |-> c.I, outer_teeth |-> c.O, ring_teeth |-> c.R]

\* json_config for the best configuration
json_config(best) ==
    [schema |-> "slvs-json/1", units |-> "mm",
     parameters |-> Parameters(best),
     entities |->
        << Gear(PlanetId("sun", 0), <<0, 0, 0>>, "sun_teeth", 0, FALSE),
           Gear(PlanetId("ring", 0), <<0, 0, 0>>, "ring_teeth",
                best.phases.ring_demands[1], TRUE) >>
        \o Planets(best, 1).entities,
     constraints |-> Planets(best, 1).constraints]

-----------------------------------------------------------------------------
(* find_valid_double_planetary.py: outer phases and ring phase agreement *)

\* calculate_gear_phase(teeth1, teeth2, angle_deg, is_internal=True):
\*   (-angle_deg * teeth1/teeth2 + (360/teeth2)/2) % 360
calculate_internal_gear_phase(teeth1, teeth2, angle) ==
    (RoundDiv(HalfTurn, teeth2) - RoundDiv(angle * teeth1, teeth2)) % FullTurn

\* "if phase_variance < 5", in millidegrees
PhaseAgreementLimit == 5000

\* lines 166-176: the phase of an accepted outer planet, propagated from the
\* phase of its inner planet
AcceptedOuterPhase(c, config) ==
    (calculate_gear_phase(c.S, c.I, InnerAngle(config.index, 3))
        + calculate_gear_phase(c.I, c.O, config.offset_from_inner)) % FullTurn

\* lines 180-191: the ring phase an accepted outer planet demands
RingPhaseDemand(c, config) ==
    (AcceptedOuterPhase(c, config)
        - calculate_internal_gear_phase(c.O, c.R, config.angle)) % FullTurn

\* lines 166-199 and 289-291: the outer phases, the ring phase each accepted
\* outer planet demands, and the verdict; max() and min() of an empty
\* ring_phase_demands raise ValueError before any verdict is printed
ring_phase_agreement(c) ==
    LET outer_configs == find_outer_placements(c).outer_configs
        ring_phase_demands ==
            [k \in 1..Len(outer_configs) |-> RingPhaseDemand(c, outer_configs[k])]
    IN  IF ring_phase_demands = <<>>
        THEN [tool |-> "ring_phase_agreement", raised |-> "ValueError",
              verdict |-> "none", ring_phase_demands |-> <<>>]
        ELSE [tool |-> "ring_phase_agreement", raised |-> "none",
              verdict |-> IF Max(ring_phase_demands) - Min(ring_phase_demands)
                               < PhaseAgreementLimit
                          THEN "valid" ELSE "invalid",
              outer_configs |-> outer_configs,
              outer_phases |->
                [k \in 1..Len(outer_configs) |->
                    AcceptedOuterPhase(c, outer_configs[k])],
              ring_phase_demands |-> ring_phase_demands]

\* the document find_valid_double_planetary.py saves after the verdict
\* "valid" (agreement is the result of ring_phase_agreement): sun, ring,
\* the three inner planets, one outer planet for each accepted placement
double_planetary_config(c, agreement) ==
    LET outer_configs == agreement.outer_configs
        avg_ring_phase == RoundDiv(Sum(agreement.ring_phase_demands),
                                   Len(agreement.ring_phase_demands))
    IN  [schema |-> "slvs-json/1", units |-> "mm",
         parameters |-> Parameters(c),
         entities |->
            << Gear(PlanetId("sun", 0), <<0, 0, 0>>, "sun_teeth", 0, FALSE),
               Gear(PlanetId("ring", 0), <<0, 0, 0>>, "ring_teeth",
                    avg_ring_phase, TRUE) >>
            \o [i \in 1..3 |->
                  Gear(PlanetId("inner", i),
                       RoundedCenter(InnerOrbit(c), InnerAngle(i, 3)),
                       "inner_teeth",
                       calculate_gear_phase(c.S, c.I, InnerAngle(i, 3)), FALSE)]
            \o [k \in 1..Len(outer_configs) |->
                  Gear(PlanetId("outer", k),
                       << outer_configs[k].position[1],
                          outer_configs[k].position[2], 0 >>,
                       "outer_teeth", agreement.outer_phases[k], FALSE)],
         constraints |->
            [i \in 1..3 |-> [type |-> "mesh", gear1 |-> PlanetId("sun", 0),
                             gear2 |-> PlanetId("inner", i)]]
            \o [m \in 1..(2 * Len(outer_configs)) |->
                  LET k == (m + 1) \div 2
                  IN  IF m % 2 = 1
                      THEN [type |-> "mesh",
                            gear1 |-> PlanetId("inner", outer_configs[k].index),
                            gear2 |-> PlanetId("outer", k)]
                      ELSE [type |-> "mesh", gear1 |-> PlanetId("ring", 0),
                            gear2 |-> PlanetId("outer", k)]]]

\* an index past the sixth inner planet
NextInnerUnwrapped(i) == i + 1

\* create_perfect_triangular.py: the second inner planet outer planet i meshes
\* with, f"inner{(i+1)%6+1}" for i in range(6), i here counted from 1
NextInner(i) == (i % 6) + 1

\* the document create_perfect_triangular.py saves: sun, ring, six inner
\* planets each meshed with the sun, six outer planets each meshed with two
\* adjacent inner planets and with the ring; every phase is 0.0
perfect_triangular_config(c) ==
    [schema |-> "slvs-json/1", units |-> "mm",
     parameters |-> Parameters(c),
     entities |->
        << Gear(PlanetId("sun", 0), <<0, 0, 0>>, "sun_teeth", 0, FALSE),
           Gear(PlanetId("ring", 0), <<0, 0, 0>>, "ring_teeth", 0, TRUE) >>
        \o [i \in 1..6 |->
              Gear(PlanetId("inner", i),
                   << TriInnerPosition(c, i)[1], TriInnerPosition(c, i)[2], 0 >>,
                   "inner_teeth", 0, FALSE)]
        \o [i \in 1..6 |->
              Gear(PlanetId("outer", i),
                   << TriOuterPosition(c, i)[1], TriOuterPosition(c, i)[2], 0 >>,
                   "outer_teeth", 0, FALSE)],
     constraints |->
        [i \in 1..6 |-> [type |-> "mesh", gear1 |-> PlanetId("sun", 0),
                         gear2 |-> PlanetId("inner", i)]]
        \o [m \in 1..18 |->
              LET i == (m + 2) \div 3
              IN  IF m % 3 = 1
                  THEN [type |-> "mesh", gear1 |-> PlanetId("inner", i),
                        gear2 |-> PlanetId("outer", i)]
                  ELSE IF m % 3 = 2
                  THEN [type |-> "mesh",
                        gear1 |-> PlanetId("inner", NextInner(i)),
                        gear2 |-> PlanetId("outer", i)]
                  ELSE [type |-> "mesh", gear1 |-> PlanetId("ring", 0),
                        gear2 |-> PlanetId("outer", i)]]]

-----------------------------------------------------------------------------
(* Specification SpecTools: one call of one function on one configuration  *)

InitTools ==
    /\ pc = "tools"
    /\ cfg \in Configs
    /\ out = None
    /\ demands = <<>>
    /\ sweep = None
    /\ doc = None

RunSimulate ==
    /\ pc = "tools"
    /\ out' = simulate_phase_propagation(cfg)
    /\ pc' = "done"
    /\ UNCHANGED <<cfg, demands, sweep, doc>>

RunCheckGeometry ==
    /\ pc = "tools"
    /\ out' = check_geometry(cfg)
    /\ pc' = "done"
    /\ UNCHANGED <<cfg, demands, sweep, doc>>

RunAnalyze6 ==
    /\ pc = "tools"
    /\ out' = analyze_6planet_system(cfg)
    /\ pc' = "done"
    /\ UNCHANGED <<cfg, demands, sweep, doc>>

RunValidate ==
    /\ pc = "tools"
    /\ out' = validate_planetary_gear_system(cfg)
    /\ pc' = "done"
    /\ UNCHANGED <<cfg, demands, sweep, doc>>

RunFindOuterPlacements ==
    /\ pc = "tools"
    /\ out' = find_outer_placements(cfg)
    /\ pc' = "done"
    /\ UNCHANGED <<cfg, demands, sweep, doc>>

RunRingPhaseAgreement ==
    /\ pc = "tools"
    /\ out' = ring_phase_agreement(cfg)
    /\ pc' = "done"
    /\ UNCHANGED <<cfg, demands, sweep, doc>>

RunPlace6 ==
    /\ pc = "tools"
    /\ out' = place_6planet_outers(cfg)
    /\ pc' = "done"
    /\ UNCHANGED <<cfg, demands, sweep, doc>>

RunCalculatePhasePropagation ==
    /\ pc = "tools"
    /\ out' = calculate_phase_propagation(cfg)
    /\ pc' = "done"
    /\ UNCHANGED <<cfg, demands, sweep, doc>>

NextTools ==
    \/ RunSimulate \/ RunCheckGeometry \/ RunAnalyze6 \/ RunValidate
    \/ RunFindOuterPlacements \/ RunPlace6 \/ RunCalculatePhasePropagation
    \/ RunRingPhaseAgreement

SpecTools == InitTools /\ [][NextTools]_vars

-----------------------------------------------------------------------------
(* Claims on the feasibility functions, checked under SpecTools *)

\* the planet count a function tests the assembly constraint with
PlanetsTested == IF out.tool = "analyze_6planet" THEN 6 ELSE cfg.n

GeometryTools == {"simulate", "check_geometry", "analyze_6planet"}

\* C2: no configuration with (S + R) mod n /= 0 is reported valid: each
\* function returns failure for it, the three geometry functions with the
\* assembly reason before any geometric test, and validate's float test of
\* the quotient agrees with the integer test.
C2_AssemblyNecessary ==
    (out.tool \in GeometryTools \cup {"validate"}
        /\ (cfg.S + cfg.R) % PlanetsTested /= 0)
        => (~out.ok /\ out.reason = "assembly")

\* C2 witness: S = 24, R = 71, n = 6 has been rejected by the propagation
C2_Witness ==
    /\ cfg.S = 24 /\ cfg.R = 71 /\ cfg.n = 6
    /\ out.tool = "simulate" /\ ~out.ok

\* C3: with the assembly constraint passed, each geometry function reports
\* infeasible geometry exactly when the ring orbit exceeds inner_orbit +
\* mesh_distance or falls below |inner_orbit - mesh_distance|; the cosine
\* branch after a passed triangle inequality is never taken.
C3_InfeasibleIffTriangleFails ==
    (out.tool \in GeometryTools /\ out.reason /= "assembly")
        => /\ (out.reason \in {"geometry", "triangle", "cosine"})
                <=> TriangleFails(cfg)
           /\ out.reason /= "cosine"

PlacementTools == {"find_valid_double_planetary", "find_6planet_solution"}

\* C4: for every feasible configuration each outer-planet placement the
\* solver computes on the ring orbit, at inner_angle + offset and at
\* inner_angle - offset, lies at mesh_distance from its inner planet within
\* 0.01 mm.
C4_PlacementAtMeshDistance ==
    (out.tool \in PlacementTools /\ out.ok)
        => \A k \in 1..Len(out.tried) :
              Abs(out.tried[k].dist_to_inner - 100 * MeshDistance(cfg)) <= 1

\* C5: for every feasible configuration the solver's result holds, for each
\* inner planet, the placement at +offset and the placement at -offset.
C5_BothMirrorsExposed ==
    (out.tool = "find_valid_double_planetary" /\ out.ok)
        => \A i \in 1..3 : \A sign \in {1, -1} :
              \E k \in 1..Len(out.outer_configs) :
                  /\ out.outer_configs[k].index = i
                  /\ out.outer_configs[k].offset_from_inner
                        = sign * OffsetAngle(cfg)

\* the phase the transfer rule gives gear Y across a mesh edge X -> Y:
\* (phase(X) * teeth(X)/teeth(Y) + angle * teeth(X)/teeth(Y) + 180/teeth(Y))
\* mod 360
TransferRule(phaseX, teethX, teethY, angle) ==
    (RoundDiv(phaseX * teethX, teethY)
        + calculate_gear_phase(teethX, teethY, angle)) % FullTurn

\* two phases equal up to the rounding of the format
SamePhase(a, b) ==
    LET d == (a - b) % FullTurn IN d <= 3 \/ FullTurn - d <= 3

\* C6: along the edges sun -> inner -> outer -> ring the propagator assigns
\* each gear the phase of the transfer rule, the upstream phase multiplied by
\* the gear ratio, and every phase lies in [0, 360).
C6_PhaseTransferRule ==
    (out.tool = "simulate" /\ out.ok)
        => \A i \in 1..cfg.n :
              /\ SamePhase(out.inner[i],
                           TransferRule(0, cfg.S, cfg.I, InnerAngle(i, cfg.n)))
              /\ SamePhase(out.outer[i],
                           TransferRule(out.inner[i], cfg.I, cfg.O,
                                        out.offset_angle))
              /\ SamePhase(out.ring_demands[i],
                           TransferRule(out.outer[i], cfg.O, cfg.R,
                                        OuterAngle(cfg, i, out.offset_angle)))
              /\ out.outer[i] \in 0..(FullTurn - 1)
              /\ out.ring_demands[i] \in 0..(FullTurn - 1)

-----------------------------------------------------------------------------
(* Specification Spec: the exhaustive search runs, writes its best         *)
(* configuration, and the overlap detector is run on the written document  *)

\* sweep.evaluated records the calls of simulate_phase_propagation made so far
Init ==
    /\ pc = "search"
    /\ cfg = None
    /\ out = None
    /\ demands = <<>>
    /\ sweep = [np |-> 1, s |-> 1, i |-> 1, o |-> 1, m |-> 1,
                tested |-> 0, evaluated |-> 0, valid_configs |-> <<>>]
    /\ doc = None

\* one iteration of the innermost loop, and the breaks that follow it
\* a sweep in which the budget never ends the loops
BudgetNeverExhausted(tested) == FALSE

\* tested += 1; if tested > max_tests: break
BudgetExhausted(tested) == tested > MaxTests

\* a sweep that an infeasible candidate ends
AfterEvaluationAbortingOnFailure(w, phases) ==
    IF LastCandidate(w) \/ ~phases.ok THEN "report" ELSE "search"

\* where the loops go after the body has run on a candidate: "if phases:" and
\* "if aligned:" have no else branch, so on to the next candidate whatever
\* the evaluation returned, and to the report after the last one
AfterEvaluation(w, phases) ==
    IF LastCandidate(w) THEN "report" ELSE "search"

SweepStep ==
    /\ pc = "search"
    /\ LET c == Candidate(sweep)
           next_pc == IF LastCandidate(sweep) THEN "report" ELSE "search"
       IN  IF c.R > RingLimit
           THEN /\ sweep' = Advance(sweep)
                /\ pc' = next_pc
                /\ UNCHANGED <<cfg, out, demands>>
           ELSE IF BudgetExhausted(sweep.tested + 1)
           THEN /\ sweep' = [sweep EXCEPT !.tested = sweep.tested + 1]
                /\ pc' = "report"
                /\ UNCHANGED <<cfg, out, demands>>
           ELSE LET phases == simulate_phase_propagation(c)
                    alignment == check_phase_alignment(phases.ring_demands, c.R)
                    found == phases.ok /\ alignment.result
                IN  /\ cfg' = c
                    /\ out' = IF phases.ok THEN alignment ELSE phases
                    /\ demands' = IF phases.ok THEN phases.ring_demands
                                   ELSE <<>>
                    /\ sweep' = [Advance(sweep) EXCEPT
                            !.tested = sweep.tested + 1,
                            !.evaluated = sweep.evaluated + 1,
                            !.valid_configs =
                                IF found
                                THEN Append(sweep.valid_configs,
                                            ValidConfig(c, phases, alignment))
                                ELSE sweep.valid_configs]
                    /\ pc' = AfterEvaluation(sweep, phases)
    /\ UNCHANGED doc

\* after the loops: print the counts ("Tested ... configurations", "Found ...
\* valid configurations"), rank the valid configurations and save the best one
Report ==
    /\ pc = "report"
    /\ out' = [tool |-> "report", tested |-> sweep.tested,
               found |-> Len(sweep.valid_configs)]
    /\ IF sweep.valid_configs /= <<>>
       THEN LET ranked == SortByVariance(sweep.valid_configs,
                                         Len(sweep.valid_configs))
            IN  /\ sweep' = [sweep EXCEPT !.valid_configs = ranked]
                /\ doc' = json_config(ranked[1])
                /\ pc' = "emitted"
       ELSE /\ pc' = "no_valid"
            /\ UNCHANGED <<sweep, doc>>
    /\ UNCHANGED <<cfg, demands>>

\* detect_meshing_overlaps.py run on the saved document
Detect ==
    /\ pc = "emitted"
    /\ out' = detector_main(doc)
    /\ pc' = "detected"
    /\ UNCHANGED <<cfg, demands, sweep, doc>>

Next == SweepStep \/ Report \/ Detect

Spec == Init /\ [][Next]_vars

\* C1: the detector run on the document the search saved for its best
\* configuration reports no issue: no centre-distance error and no tooth
\* overlap on any mesh constraint.
C1_EmittedConfigPassesDetector ==
    pc = "detected" => (out.issues = <<>> /\ out.exit_code = 0)

\* C7: the ring phase written to the saved document is the circular mean of
\* the ring demands of the best configuration.
C7_RingPhaseIsCircularMean ==
    pc \in {"emitted", "detected"}
        => SamePhase(GearById(doc.entities, PlanetId("ring", 0)).phase,
                     circular_mean(sweep.valid_configs[1].phases.ring_demands))

\* C18: in every reachable state at most max_tests configurations have been
\* evaluated, and once the budget is exhausted the sweep has left its loops
C18_BudgetBoundsEvaluations ==
    /\ sweep.evaluated <= MaxTests
    /\ sweep.tested > MaxTests => pc /= "search"

C18_Witness ==
    pc = "report" /\ sweep.tested > MaxTests /\ sweep.evaluated = MaxTests

\* C19: the final report states the tested count and the count passing each
\* filter stage, and the tested count it states is the number of
\* configurations evaluated, also when the budget ended the run early
C19_ReportCounts ==
    (pc \in {"emitted", "no_valid"} /\ out.tool = "report")
        => /\ out.tested = sweep.evaluated
           /\ {"assembly", "geometry", "alignment"} \subseteq DOMAIN out

\* the last configuration the sweep appended to valid_configs
LastValid == sweep.valid_configs[Len(sweep.valid_configs)]

\* C20: every configuration the search reports as valid has passed, in this
\* order, the assembly check, the geometry check, the phase alignment check
\* and the tooth-overlap detection
C20_ValidPassedAllChecks ==
    (pc \in {"search", "report"} /\ sweep.valid_configs /= <<>>)
        => /\ ~AssemblyFails(LastValid.S, LastValid.R, LastValid.n)
           /\ ~CosOutOfRange(LastValid)
           /\ check_phase_alignment(LastValid.phases.ring_demands,
                                    LastValid.R).result
           /\ \A k \in 1..Len(detect_meshing_overlaps(json_config(LastValid))) :
                    ~IsToothOverlap(
                        detect_meshing_overlaps(json_config(LastValid))[k])

-----------------------------------------------------------------------------
(* Specification SpecTri: one call of one function of the triangular       *)
(* construction on one configuration                                       *)

TriConfigs ==
    [S : { ToothStep * k : k \in 3..MaxTriSunK }, I : InnerTeeth,
     O : OuterTeeth, R : { ToothStep * k : k \in 7..MaxRingK }, n : {6}]

InitTri ==
    /\ pc = "triangular"
    /\ cfg \in TriConfigs
    /\ out = None
    /\ demands = <<>>
    /\ sweep = None
    /\ doc = None

RunCheckTriangularValid ==
    /\ pc = "triangular"
    /\ out' = check_triangular_geometry(cfg, "find_valid_triangular",
                                        ValidRingTolerance)
    /\ pc' = "done"
    /\ UNCHANGED <<cfg, demands, sweep, doc>>

RunCheckTriangularCompatible ==
    /\ pc = "triangular"
    /\ out' = check_triangular_geometry(cfg, "find_phase_compatible_triangular",
                                        RingTolerance)
    /\ pc' = "done"
    /\ UNCHANGED <<cfg, demands, sweep, doc>>

RunCheckSafeTriangular ==
    /\ pc = "triangular"
    /\ out' = check_safe_triangular_geometry(cfg)
    /\ pc' = "done"
    /\ UNCHANGED <<cfg, demands, sweep, doc>>

RunCalculatePositions ==
    /\ pc = "triangular"
    /\ out' = calculate_positions(cfg)
    /\ pc' = "done"
    /\ UNCHANGED <<cfg, demands, sweep, doc>>

NextTri ==
    \/ RunCheckTriangularValid \/ RunCheckTriangularCompatible
    \/ RunCheckSafeTriangular \/ RunCalculatePositions

SpecTri == InitTri /\ [][NextTri]_vars

TriangularChecks ==
    {"find_valid_triangular", "find_phase_compatible_triangular",
     "find_safe_triangular"}

\* C12: whenever mesh_distance is at most half the chord between adjacent
\* inner planets (I + 2*O <= S) the feasibility checks and the position
\* calculation report that the planets cannot reach each other; otherwise
\* the height h is positive.
C12_UnreachableFails ==
    (out.tool \in TriangularChecks \cup {"calculate_positions"}
        /\ out.reason /= "ring_clearance")
        => /\ (cfg.I + 2 * cfg.O <= cfg.S)
                => (~out.ok /\ out.reason = "unreachable")
           /\ (cfg.I + 2 * cfg.O > cfg.S /\ out.tool \in TriangularChecks)
                => out.h > 0

\* C13: a triangular configuration is accepted only if the constructed outer
\* orbit is within 1 mm of the ring orbit (R - O) * module / 2; for
\* S=36, I=18, O=12, R=72 the constructed orbit is within 0.16 mm of 60 mm.
C13_AcceptedWithinRingError ==
    /\ (out.tool \in TriangularChecks /\ out.ok)
            => Abs(out.outer_radius_actual - out.outer_radius_for_ring) <= 100
    /\ (out.tool \in TriangularChecks /\ out.reason = "checked"
            /\ cfg.S = 36 /\ cfg.I = 18 /\ cfg.O = 12 /\ cfg.R = 72)
            => Abs(out.outer_radius_actual - 6000) <= 16

-----------------------------------------------------------------------------
(* Specification SpecAlign: the alignment validators applied to lists of   *)
(* phase demands                                                           *)

\* ring sizes of the test cases of analyze_phase_modulo.py
AlignTeeth == {72, 84}

\* positions within one tooth period: on the tooth boundary, inside 10 % of
\* the period, at the half tooth, just below the next boundary
Residues(teeth) ==
    {0, 300, ToothPeriod(teeth) \div 2, ToothPeriod(teeth) - 10}

ToothIndexes(teeth) == {0} \cup { teeth - 2 + k : k \in 0..MaxShift }

\* three demands: the first anywhere on the ring, the others in the first
\* tooth period
ThreeDemands(teeth) ==
    { << j * ToothPeriod(teeth) + r1, r2, r3 >> :
        j \in ToothIndexes(teeth),
        r1 \in Residues(teeth), r2 \in Residues(teeth), r3 \in Residues(teeth) }

\* six demands at a constant step: all equal, one sixth of a tooth period
\* apart, 60 degrees apart
SixDemands(teeth) ==
    { [i \in 1..6 |-> base + (i - 1) * step] :
        base \in {0, 300},
        step \in {0, ToothPeriod(teeth) \div 6, FullTurn \div 6} }

\* three demands one third of a tooth period apart
RegularThree(teeth) ==
    { [i \in 1..3 |-> base + (i - 1) * (ToothPeriod(teeth) \div 3)] :
        base \in {0, 300} }

DemandLists(teeth) ==
    ThreeDemands(teeth) \cup SixDemands(teeth) \cup RegularThree(teeth)

InitAlign ==
    /\ pc = "align"
    /\ cfg \in [R : AlignTeeth]
    /\ out = None
    /\ demands = <<>>
    /\ sweep = None
    /\ doc = None

RunAnalyzeEquivalence ==
    /\ pc = "align"
    /\ \E d \in DemandLists(cfg.R) :
          /\ demands' = d
          /\ out' = analyze_phase_equivalence(d, cfg.R)
    /\ UNCHANGED <<pc, cfg, sweep, doc>>

RunCheckAlignment ==
    /\ pc = "align"
    /\ \E d \in DemandLists(cfg.R) :
          /\ demands' = d
          /\ out' = check_phase_alignment(d, cfg.R)
    /\ UNCHANGED <<pc, cfg, sweep, doc>>

NextAlign == RunAnalyzeEquivalence \/ RunCheckAlignment

SpecAlign == InitAlign /\ [][NextAlign]_vars

-----------------------------------------------------------------------------
(* Claims on the alignment validators, checked under SpecAlign *)

AlignTools == {"analyze_phase_equivalence", "check_phase_alignment"}

\* variance < 0.1 * T on the demands reduced into [0, T)
StrictlyAligned(phases, teeth) ==
    Variance(Normalized(phases, teeth)) < RoundDiv(ToothPeriod(teeth), 10)

\* all circular gaps between consecutive sorted normalized demands are equal
\* within 0.1 * T
RegularlySpaced(phases, teeth) ==
    IntervalVariance(Intervals(Sorted(Normalized(phases, teeth)), teeth))
        < RoundDiv(ToothPeriod(teeth), 10)

\* C8: a validator declares a set of demands aligned if and only if
\* max - min of the demands reduced into [0, T) is below 0.1 * T.
C8_AlignedIffVarianceBelowTenthPeriod ==
    out.tool \in AlignTools
        => (out.result <=> StrictlyAligned(out.input, out.teeth))

\* b is a with an integer multiple of the tooth period added to each demand
ShiftedByPeriods(a, b, teeth) ==
    /\ Len(a) = Len(b)
    /\ \A i \in 1..Len(a) : (b[i] - a[i]) % ToothPeriod(teeth) = 0

\* C9: adding integer multiples of the tooth period to the demands leaves
\* every normalized demand and the variance unchanged.
C9_PeriodShiftInvariance ==
    [][ ( /\ out.tool = "check_phase_alignment"
          /\ out'.tool = "check_phase_alignment"
          /\ ShiftedByPeriods(out.input, out'.input, cfg.R) )
        => ( /\ out'.normalized = out.normalized
             /\ out'.variance = out.variance ) ]_vars

\* C10: a strictly aligned set and a set that is not aligned but regularly
\* spaced never get the same return value from the validator.
C10_DistinctOutcomes ==
    [][ ( /\ out.tool = "analyze_phase_equivalence"
          /\ out'.tool = "analyze_phase_equivalence"
          /\ StrictlyAligned(out.input, cfg.R)
          /\ ~StrictlyAligned(out'.input, cfg.R)
          /\ RegularlySpaced(out'.input, cfg.R) )
        => out'.result /= out.result ]_vars

\* C11: for demands that are not aligned, whatever their number, the
\* validator reports regular spacing if and only if all circular gaps between
\* consecutive sorted normalized demands are equal within tolerance.
C11_RegularSpacingAnyLength ==
    (out.tool = "analyze_phase_equivalence"
        /\ ~StrictlyAligned(out.input, out.teeth))
        => (out.result <=> RegularlySpaced(out.input, out.teeth))

\* the angles the demands are turned by: 0.01 and 0.3 degree
Translations == {10, 300}

Translate(phases, delta) == [i \in 1..Len(phases) |-> phases[i] + delta]

\* the primary verdict of a validator on the demands: variance < tolerance
PrimaryAligned(tool, phases, teeth) ==
    IF tool = "check_phase_alignment"
    THEN check_phase_alignment(phases, teeth).variance < DefaultTolerance
    ELSE analyze_phase_equivalence(phases, teeth).result

\* the tolerance of the primary verdict
PrimaryTolerance(tool, teeth) ==
    IF tool = "check_phase_alignment" THEN DefaultTolerance
    ELSE RoundDiv(ToothPeriod(teeth), 10)

\* the length of the shortest arc of the circle of circumference T that
\* holds all the demands
CircularSpread(phases, teeth) ==
    LET n == Normalized(phases, teeth)
    IN  Min([i \in 1..Len(n) |->
                Max([j \in 1..Len(n) |-> (n[j] - n[i]) % ToothPeriod(teeth)])])

\* C29: the primary verdict depends only on the circular spread of the demands
\* modulo the tooth period: turning every demand by the same angle does not
\* change it, and demands within tolerance of each other across the 0/T wrap
\* are aligned (analyze_phase_equivalence on lists without the six-demand
\* pattern test).
C29_VerdictOnCircularSpread ==
    (out.tool \in AlignTools
        /\ (out.tool = "analyze_phase_equivalence"
                => Len(out.input) /= PatternLength))
        => LET aligned == IF out.tool = "check_phase_alignment"
                          THEN out.variance < DefaultTolerance
                          ELSE out.result
           IN  /\ \A delta \in Translations :
                    PrimaryAligned(out.tool, Translate(out.input, delta),
                                   out.teeth) = aligned
               /\ (CircularSpread(out.input, out.teeth)
                        < PrimaryTolerance(out.tool, out.teeth))
                    => aligned

\* C24: on an infeasible input a check returns a failure value with a reason
\* and does not raise; calculate_positions does so when the mesh distance is
\* below half the chord between neighbouring inner planets, and the ring
\* phase agreement of find_valid_double_planetary ends with the verdict
\* "invalid" when no outer placement was accepted
C24_FailureValueNotRaised ==
    /\ (pc = "done" /\ out.tool = "calculate_positions")
          => /\ out.raised = "none"
             /\ (2 * MeshDistance(cfg) < InnerOrbit(cfg))
                  => (~out.ok /\ out.reason = "unreachable")
    /\ (pc = "done" /\ out.tool = "ring_phase_agreement")
          => /\ out.raised = "none"
             /\ (find_outer_placements(cfg).outer_configs = <<>>)
                  => out.verdict = "invalid"

-----------------------------------------------------------------------------
(* Specification SpecDetect: detect_meshing_overlaps.py on a document of   *)
(* two external gears joined by one mesh constraint                        *)

MaxPairTeethK == 3
MaxPhaseK == 4

\* the first gear at the origin, the second on the x axis at the sum of the
\* pitch radii less gap (hundredths of a millimetre); phases in millidegrees
PairInputs ==
    [teeth1 : { ToothStep * k : k \in 1..MaxPairTeethK },
     teeth2 : { ToothStep * k : k \in 1..MaxPairTeethK },
     phase1 : { 5000 * k : k \in 0..MaxPhaseK },
     phase2 : { 5000 * k : k \in 0..MaxPhaseK },
     gap : {0, 100}]

PairDocument(p) ==
    [schema |-> "slvs-json/1", units |-> "mm",
     parameters |-> [module |-> 100 * module, pressure_angle |-> 20000,
                     sun_teeth |-> p.teeth1, inner_teeth |-> p.teeth2],
     entities |->
        << Gear("gear1", <<0, 0, 0>>, "sun_teeth", p.phase1, FALSE),
           Gear("gear2",
                <<(100 * module * (p.teeth1 + p.teeth2)) \div 2 - p.gap, 0, 0>>,
                "inner_teeth", p.phase2, FALSE) >>,
     constraints |-> << [type |-> "mesh", gear1 |-> "gear1",
                         gear2 |-> "gear2"] >>]

InitDetect ==
    /\ pc = "detect"
    /\ cfg \in PairInputs
    /\ out = None
    /\ demands = <<>>
    /\ sweep = None
    /\ doc = PairDocument(cfg)

\* main() of detect_meshing_overlaps.py on the document
RunDetectorMain ==
    /\ pc = "detect"
    /\ out' = detector_main(doc)
    /\ pc' = "done"
    /\ UNCHANGED <<cfg, demands, sweep, doc>>

\* check_tooth_overlap(g1, g2) on the two gears of the document
RunCheckToothOverlap ==
    /\ pc = "detect"
    /\ out' = [tool |-> "check_tooth_overlap",
               flagged |-> check_tooth_overlap(
                   SolvedGear(doc.parameters, doc.entities[1]),
                   SolvedGear(doc.parameters, doc.entities[2]))]
    /\ pc' = "done"
    /\ UNCHANGED <<cfg, demands, sweep, doc>>

NextDetect == RunDetectorMain \/ RunCheckToothOverlap

SpecDetect == InitDetect /\ [][NextDetect]_vars

\* C14: two external meshed gears at centre distance exactly r1 + r2 are not
\* flagged, whatever their phases, and two at r1 + r2 - 1 mm are flagged as
\* overlapping by the 0.5 mm tooth test, whatever their phases
C14_MeshBoundary ==
    /\ (pc = "done" /\ out.tool = "detect_meshing_overlaps")
            => /\ cfg.gap = 0 => out.issues = <<>>
               /\ cfg.gap = 100 => \E k \in 1..Len(out.issues) :
                                        IsToothOverlap(out.issues[k])
    /\ (pc = "done" /\ out.tool = "check_tooth_overlap")
            => /\ cfg.gap = 0 => ~out.flagged
               /\ cfg.gap = 100 => out.flagged

-----------------------------------------------------------------------------
(* detect_overlaps.py on the line segments parse_svg_path extracts from    *)
(* the gear groups of a drawing.  Coordinates in twentieths of a           *)
(* millimetre; distances are kept squared, as fractions num / den.         *)

\* float('inf')
Infinity == [num |-> 1, den |-> 0]

RatLess(a, b) == a.num * b.den < b.num * a.den

RatMin(a, b) == IF RatLess(b, a) THEN b ELSE a

\* Point.distance_to, squared
DistanceSq(p, q) ==
    (p[1] - q[1]) * (p[1] - q[1]) + (p[2] - q[2]) * (p[2] - q[2])

\* ccw(A, B, C) of LineSegment.intersects
ccw(A, B, C) ==
    (C[2] - A[2]) * (B[1] - A[1]) > (B[2] - A[2]) * (C[1] - A[1])

\* LineSegment.intersects(self, other)
intersects(self, other) ==
    IF self.gear_id = other.gear_id THEN FALSE
    ELSE /\ ccw(self.p1, other.p1, other.p2) /= ccw(self.p2, other.p1, other.p2)
         /\ ccw(self.p1, self.p2, other.p1) /= ccw(self.p1, self.p2, other.p2)

\* LineSegment._point_to_segment_distance, squared: t is clamped to [0, 1]
point_to_segment_distance(point, seg_start, seg_end) ==
    LET dx == seg_end[1] - seg_start[1]
        dy == seg_end[2] - seg_start[2]
        dot == (point[1] - seg_start[1]) * dx + (point[2] - seg_start[2]) * dy
        len == dx * dx + dy * dy
        cross == (point[1] - seg_start[1]) * dy - (point[2] - seg_start[2]) * dx
    IN  IF dx = 0 /\ dy = 0 THEN [num |-> DistanceSq(point, seg_start), den |-> 1]
        ELSE IF dot <= 0 THEN [num |-> DistanceSq(point, seg_start), den |-> 1]
        ELSE IF dot >= len THEN [num |-> DistanceSq(point, seg_end), den |-> 1]
        ELSE [num |-> cross * cross, den |-> len]

\* LineSegment.min_distance_to(self, other): the least of the four
\* endpoint-to-segment distances
min_distance_to(self, other) ==
    IF self.gear_id = other.gear_id THEN Infinity
    ELSE RatMin(RatMin(point_to_segment_distance(other.p1, self.p1, self.p2),
                       point_to_segment_distance(other.p2, self.p1, self.p2)),
                RatMin(point_to_segment_distance(self.p1, other.p1, other.p2),
                       point_to_segment_distance(self.p2, other.p1, other.p2)))

\* the inner loop of analyze_svg over all_segments[i+1:], with its break
RECURSIVE ScanFrom(_, _, _, _)
ScanFrom(all_segments, i, j, found) ==
    IF j > Len(all_segments) THEN found
    ELSE LET seg1 == all_segments[i]
             seg2 == all_segments[j]
             pair == {seg1.gear_id, seg2.gear_id}
         IN  IF seg1.gear_id = seg2.gear_id
             THEN ScanFrom(all_segments, i, j + 1, found)
             ELSE IF pair \in found.checked_pairs
             THEN ScanFrom(all_segments, i, j + 1, found)
             ELSE IF intersects(seg1, seg2)
             THEN [overlaps |-> Append(found.overlaps,
                                       [gear1 |-> seg1.gear_id,
                                        gear2 |-> seg2.gear_id,
                                        distance |-> min_distance_to(seg1, seg2)]),
                   checked_pairs |-> found.checked_pairs \cup {pair}]
             ELSE ScanFrom(all_segments, i, j + 1, found)

RECURSIVE ScanAll(_, _, _)
ScanAll(all_segments, i, found) ==
    IF i > Len(all_segments) THEN found
    ELSE ScanAll(all_segments, i + 1, ScanFrom(all_segments, i, i + 1, found))

\* analyze_svg(filename): the list overlaps
analyze_svg(all_segments) ==
    ScanAll(all_segments, 1, [overlaps |-> <<>>, checked_pairs |-> {}]).overlaps

\* the order of Python strings on the gear ids
GearOrder == [a |-> 1, b |-> 2, c |-> 3]

\* min_dist < 0.1
OverlapEpsilon == 2

\* the least min_distance_to over the segments of gear1 and of gear2
RECURSIVE MinOver(_, _, _, _)
MinOver(segments, gear1, gear2, k) ==
    IF k > Len(segments) * Len(segments) THEN Infinity
    ELSE LET seg1 == segments[((k - 1) \div Len(segments)) + 1]
             seg2 == segments[((k - 1) % Len(segments)) + 1]
             rest == MinOver(segments, gear1, gear2, k + 1)
         IN  IF seg1.gear_id = gear1 /\ seg2.gear_id = gear2
             THEN RatMin(min_distance_to(seg1, seg2), rest)
             ELSE rest

\* calculate_mesh_quality(segments): metrics, keyed by the pair of gear ids
calculate_mesh_quality(segments) ==
    LET gear_segments == { segments[k].gear_id : k \in 1..Len(segments) }
        pairs == { pair \in gear_segments \X gear_segments :
                        GearOrder[pair[1]] < GearOrder[pair[2]] }
    IN  [pair \in pairs |->
            LET min_dist == MinOver(segments, pair[1], pair[2], 1)
            IN  [min_distance |-> min_dist,
                 status |-> IF min_dist.num
                                    < OverlapEpsilon * OverlapEpsilon * min_dist.den
                            THEN "overlap" ELSE "clearance"]]

\* the __main__ block: exit status 1 when the list overlaps is not empty
overlaps_main(segments) ==
    LET overlaps == analyze_svg(segments)
    IN  [tool |-> "detect_overlaps", overlaps |-> overlaps,
         metrics |-> calculate_mesh_quality(segments),
         exit_code |-> IF overlaps /= <<>> THEN 1 ELSE 0]

-----------------------------------------------------------------------------
(* Specification SpecSvg: one call on one list of segments                 *)

MaxSegments == 3

\* outlines sampled: a horizontal segment, two verticals crossing it, a
\* parallel 0.05 mm above it, a short one 0.15 mm from the first vertical
SegmentShapes ==
    { << <<0, 10>>, <<20, 10>> >>, << <<5, 0>>, <<5, 20>> >>,
      << <<15, 0>>, <<15, 20>> >>, << <<0, 11>>, <<20, 11>> >>,
      << <<0, 0>>, <<2, 0>> >> }

Segments ==
    { [p1 |-> shape[1], p2 |-> shape[2], gear_id |-> g] :
            shape \in SegmentShapes, g \in DOMAIN GearOrder }

SegmentLists == UNION { [1..n -> Segments] : n \in 0..MaxSegments }

InitSvg ==
    /\ pc = "svg"
    /\ cfg = None
    /\ out = None
    /\ demands = <<>>
    /\ sweep = None
    /\ doc \in SegmentLists

RunAnalyzeSvg ==
    /\ pc = "svg"
    /\ out' = [tool |-> "analyze_svg", overlaps |-> analyze_svg(doc)]
    /\ pc' = "done"
    /\ UNCHANGED <<cfg, demands, sweep, doc>>

RunMeshQuality ==
    /\ pc = "svg"
    /\ out' = [tool |-> "calculate_mesh_quality",
               metrics |-> calculate_mesh_quality(doc)]
    /\ pc' = "done"
    /\ UNCHANGED <<cfg, demands, sweep, doc>>

RunOverlapsMain ==
    /\ pc = "svg"
    /\ out' = overlaps_main(doc)
    /\ pc' = "done"
    /\ UNCHANGED <<cfg, demands, sweep, doc>>

NextSvg == RunAnalyzeSvg \/ RunMeshQuality \/ RunOverlapsMain

SpecSvg == InitSvg /\ [][NextSvg]_vars

\* some segment of gear g crosses some segment of gear h
GearsIntersect(segments, g, h) ==
    \E k, l \in 1..Len(segments) :
        /\ segments[k].gear_id = g
        /\ segments[l].gear_id = h
        /\ intersects(segments[k], segments[l])

\* C15: analyze_svg reports every pair of gears of which some segments
\* intersect, whatever the number of gears and the order of the segments,
\* and reports each such pair exactly once
C15_EveryIntersectingPairOnce ==
    (pc = "done" /\ out.tool = "analyze_svg")
        => \A g, h \in DOMAIN GearOrder :
                (GearOrder[g] < GearOrder[h])
                    => Cardinality({ k \in 1..Len(out.overlaps) :
                            {out.overlaps[k].gear1, out.overlaps[k].gear2}
                                = {g, h} })
                       = IF GearsIntersect(doc, g, h) THEN 1 ELSE 0

\* the outlines of gears g and h are closer than 0.1 mm: two of their
\* segments cross or an end of one is within 0.1 mm of the other
OutlinesWithinEpsilon(segments, g, h) ==
    \E k, l \in 1..Len(segments) :
        /\ segments[k].gear_id = g
        /\ segments[l].gear_id = h
        /\ \/ intersects(segments[k], segments[l])
           \/ RatLess(min_distance_to(segments[k], segments[l]),
                      [num |-> OverlapEpsilon * OverlapEpsilon, den |-> 1])

\* C16: calculate_mesh_quality classifies every unordered pair of distinct
\* gears that have segments exactly once, as overlap exactly when their
\* outlines are closer than 0.1 mm and as clearance otherwise
C16_ClassifiedByMinimumDistance ==
    (pc = "done" /\ out.tool = "calculate_mesh_quality")
        => LET present == { doc[k].gear_id : k \in 1..Len(doc) }
           IN  /\ DOMAIN out.metrics
                    = { pair \in present \X present :
                            GearOrder[pair[1]] < GearOrder[pair[2]] }
               /\ \A pair \in DOMAIN out.metrics :
                    out.metrics[pair].status
                        = IF OutlinesWithinEpsilon(doc, pair[1], pair[2])
                          THEN "overlap" ELSE "clearance"

\* C17: a tool exits with status 0 exactly when it found no failure:
\* detect_meshing_overlaps when its issue list is empty, detect_overlaps when
\* no pair intersects and no pair is classified overlap
C17_ExitStatusReflectsFailure ==
    /\ (pc = "done" /\ out.tool = "detect_meshing_overlaps")
            => (out.exit_code = 0 <=> out.issues = <<>>)
    /\ (pc = "done" /\ out.tool = "detect_overlaps")
            => (out.exit_code = 0
                    <=> /\ out.overlaps = <<>>
                        /\ \A pair \in DOMAIN out.metrics :
                                out.metrics[pair].status /= "overlap")

\* the key of calculate_mesh_quality for two gear ids
OrderedPair(g, h) == IF GearOrder[g] < GearOrder[h] THEN <<g, h>> ELSE <<h, g>>

\* C28: every pair of gears the tool reports as overlapping is classified
\* overlap, never clearance, by calculate_mesh_quality: two segments that
\* intersect have a least distance from an end of one to the other below
\* 0.1 mm
C28_ReportedOverlapClassifiedOverlap ==
    (pc = "done" /\ out.tool = "detect_overlaps")
        => /\ \A k \in 1..Len(out.overlaps) :
                LET pair == OrderedPair(out.overlaps[k].gear1,
                                        out.overlaps[k].gear2)
                IN  /\ pair \in DOMAIN out.metrics
                    /\ out.metrics[pair].status = "overlap"
           /\ \A k, l \in 1..Len(doc) :
                intersects(doc[k], doc[l])
                    => RatLess(min_distance_to(doc[k], doc[l]),
                               [num |-> OverlapEpsilon * OverlapEpsilon,
                                den |-> 1])

-----------------------------------------------------------------------------
(* Specification SpecRank: the ranking step of the sweeps, on a list       *)
(* valid_configs of survivors in the order the loops appended them         *)

MaxSurvivors == 3
MaxKey == 1

\* a survivor: its sun teeth identify it; variance, ring_error,
\* sun_clearance and inner_ring_clearance are the values the loops stored
Survivors ==
    [S : { ToothStep * k : k \in 2..(MaxSurvivors + 1) },
     variance : 0..MaxKey, ring_error : 0..MaxKey,
     sun_clearance : 0..MaxKey, inner_ring_clearance : 0..MaxKey]

SurvivorLists ==
    UNION { { l \in [1..n -> Survivors] :
                \A i, j \in 1..n : i /= j => l[i].S /= l[j].S } :
            n \in 2..MaxSurvivors }

\* valid_configs.sort(key=lambda x: -x['inner_ring_clearance']): a stable sort
RECURSIVE InsertByClearance(_, _)
InsertByClearance(sorted, config) ==
    IF sorted = <<>> THEN <<config>>
    ELSE IF sorted[Len(sorted)].inner_ring_clearance
                >= config.inner_ring_clearance
    THEN Append(sorted, config)
    ELSE Append(InsertByClearance(SubSeq(sorted, 1, Len(sorted) - 1), config),
                sorted[Len(sorted)])

RECURSIVE SortByClearance(_, _)
SortByClearance(configs, k) ==
    IF k = 0 THEN <<>>
    ELSE InsertByClearance(SortByClearance(configs, k - 1), configs[k])

InitRank ==
    /\ pc = "rank"
    /\ cfg = None
    /\ out = None
    /\ demands = <<>>
    /\ sweep = None
    /\ doc \in SurvivorLists

\* exhaustive_phase_search.py: sort by variance, the first entry is saved
RunExhaustiveRanking ==
    /\ pc = "rank"
    /\ out' = [tool |-> "exhaustive_phase_search",
               valid_configs |-> SortByVariance(doc, Len(doc))]
    /\ pc' = "done"
    /\ UNCHANGED <<cfg, demands, sweep, doc>>

\* find_phase_compatible_triangular.py: sort by variance
RunPhaseCompatibleRanking ==
    /\ pc = "rank"
    /\ out' = [tool |-> "find_phase_compatible_triangular",
               valid_configs |-> SortByVariance(doc, Len(doc))]
    /\ pc' = "done"
    /\ UNCHANGED <<cfg, demands, sweep, doc>>

\* find_safe_triangular.py: sort by inner-ring clearance, largest first
RunSafeRanking ==
    /\ pc = "rank"
    /\ out' = [tool |-> "find_safe_triangular",
               valid_configs |-> SortByClearance(doc, Len(doc))]
    /\ pc' = "done"
    /\ UNCHANGED <<cfg, demands, sweep, doc>>

NextRank ==
    RunExhaustiveRanking \/ RunPhaseCompatibleRanking \/ RunSafeRanking

SpecRank == InitRank /\ [][NextRank]_vars

\* a ranks no later than b under (variance ascending, ring-fit error
\* ascending, clearance margin descending)
ScoreBefore(a, b) ==
    \/ a.variance < b.variance
    \/ /\ a.variance = b.variance
       /\ \/ a.ring_error < b.ring_error
          \/ /\ a.ring_error = b.ring_error
             /\ a.sun_clearance >= b.sun_clearance

\* C21: the survivors are ranked by (phase variance ascending, ring-fit error
\* ascending, clearance margin descending), and the first of the ranked list
\* is the minimum under this order
C21_RankedByScoreTuple ==
    pc = "done"
        => \A i, j \in 1..Len(out.valid_configs) :
                i < j => ScoreBefore(out.valid_configs[i], out.valid_configs[j])

\* the orders in which the same survivors can be appended
Reorderings(l) ==
    { m \in [1..Len(l) -> { l[i] : i \in 1..Len(l) }] :
            \A i, j \in 1..Len(l) : i /= j => m[i] /= m[j] }

\* C22: the ranked result, and so the saved first configuration, is the same
\* for every order in which the same candidates are enumerated (candidates
\* no two of which have the same score tuple)
C22_RankingOrderIndependent ==
    (pc = "done" /\ out.tool = "exhaustive_phase_search"
        /\ \A i, j \in 1..Len(doc) :
                i /= j => ~(ScoreBefore(doc[i], doc[j])
                            /\ ScoreBefore(doc[j], doc[i])))
        => \A m \in Reorderings(doc) :
                SortByVariance(m, Len(m)) = out.valid_configs

-----------------------------------------------------------------------------
(* Specification SpecRepeat: calls of simulate_phase_propagation and         *)
(* calculate_phase_propagation one after the other, on the same or on other  *)
(* arguments; sweep holds the call before the current one                    *)

RepeatConfigs ==
    { c \in Configs : /\ c.n = 6
                      /\ c.S = 2 * ToothStep /\ c.I = 2 * ToothStep
                      /\ c.O = 2 * ToothStep /\ c.R >= 6 * ToothStep }

\* a list that outlives the call
KeptList(earlier) == earlier

\* the lists a call appends to: phases = {'inner': [], 'outer': [],
\* 'ring_demands': []} (exhaustive_phase_search.py) and inner_phases = [],
\* outer_phase_demands = [], ring_demands = [] (find_phase_compatible_
\* triangular.py) are created inside the call, so they start empty whatever
\* the earlier calls appended
NewList(earlier) == <<>>

\* the list an earlier result holds under a key, empty if it has none
ListOf(earlier, key) ==
    IF key \in DOMAIN earlier THEN earlier[key] ELSE <<>>

\* a call made after the call that returned earlier
CallAfter(earlier, result) ==
    IF "ring_demands" \notin DOMAIN result THEN result
    ELSE [result EXCEPT
            !.inner = NewList(ListOf(earlier, "inner")) \o @,
            !.outer = NewList(ListOf(earlier, "outer")) \o @,
            !.ring_demands = NewList(ListOf(earlier, "ring_demands")) \o @]

InitRepeat ==
    /\ pc = "call"
    /\ cfg \in RepeatConfigs
    /\ out = None
    /\ demands = <<>>
    /\ sweep = None
    /\ doc = None

RunSimulateAgain ==
    /\ pc = "call"
    /\ out' = CallAfter(out, simulate_phase_propagation(cfg))
    /\ pc' = "called"
    /\ UNCHANGED <<cfg, demands, sweep, doc>>

RunPropagationAgain ==
    /\ pc = "call"
    /\ out' = CallAfter(out, calculate_phase_propagation(cfg))
    /\ pc' = "called"
    /\ UNCHANGED <<cfg, demands, sweep, doc>>

\* the caller moves to its next call, with the same or with other arguments
NextArguments ==
    /\ pc = "called"
    /\ \E c \in RepeatConfigs : cfg' = c
    /\ sweep' = [tool |-> "previous", cfg |-> cfg, out |-> out]
    /\ pc' = "call"
    /\ UNCHANGED <<out, demands, doc>>

NextRepeat == RunSimulateAgain \/ RunPropagationAgain \/ NextArguments

SpecRepeat == InitRepeat /\ [][NextRepeat]_vars

\* the result of the function named by the last call on configuration c
PureResult(c) ==
    IF out.tool = "simulate" THEN simulate_phase_propagation(c)
    ELSE calculate_phase_propagation(c)

-----------------------------------------------------------------------------
(* Specification SpecGear: the radius functions of detect_meshing_overlaps.py *)
(* on two gears; modules of 1 mm and 2 mm in hundredths of a millimetre      *)

GearInputs ==
    [teeth : 1..(ToothStep * MaxPairTeethK), module : {100, 100 * module},
     internal : BOOLEAN]

InitGear ==
    /\ pc = "gear"
    /\ cfg \in [g1 : GearInputs, g2 : GearInputs]
    /\ out = None
    /\ demands = <<>>
    /\ sweep = None
    /\ doc = None

RunPitchRadius ==
    /\ pc = "gear"
    /\ out' = [tool |-> "pitch_radius", value |-> pitch_radius(cfg.g1)]
    /\ pc' = "done"
    /\ UNCHANGED <<cfg, demands, sweep, doc>>

RunOuterRadius ==
    /\ pc = "gear"
    /\ out' = [tool |-> "outer_radius", value |-> outer_radius(cfg.g1)]
    /\ pc' = "done"
    /\ UNCHANGED <<cfg, demands, sweep, doc>>

RunRootRadius ==
    /\ pc = "gear"
    /\ out' = [tool |-> "root_radius", value |-> root_radius(cfg.g1)]
    /\ pc' = "done"
    /\ UNCHANGED <<cfg, demands, sweep, doc>>

RunTheoreticalCenterDistance ==
    /\ pc = "gear"
    /\ out' = [tool |-> "theoretical_center_distance",
               value |-> theoretical_center_distance(cfg.g1, cfg.g2)]
    /\ pc' = "done"
    /\ UNCHANGED <<cfg, demands, sweep, doc>>

NextGear ==
    \/ RunPitchRadius \/ RunOuterRadius \/ RunRootRadius
    \/ RunTheoreticalCenterDistance

SpecGear == InitGear /\ [][NextGear]_vars

\* twice the pitch radius: teeth * module
PitchDiameter(gear) == gear.teeth * gear.module

\* C26: the pitch radius is teeth * module / 2; the outer radius is the pitch
\* radius plus the module for an external gear and minus the module for an
\* internal one; the root radius is the pitch radius minus 1.25 modules for an
\* external gear and plus 1.25 modules for an internal one; the theoretical
\* centre distance is |pitch1 - pitch2| when exactly one gear is internal and
\* pitch1 + pitch2 otherwise, the same for both orders of the two gears.
C26_GearRadii ==
    (pc = "done")
        => /\ (out.tool = "pitch_radius")
                => 2 * out.value = PitchDiameter(cfg.g1)
           /\ (out.tool = "outer_radius")
                => 2 * out.value
                     = PitchDiameter(cfg.g1)
                         + (IF cfg.g1.internal THEN -2 ELSE 2) * cfg.g1.module
           /\ (out.tool = "root_radius")
                => 4 * out.value
                     = 2 * PitchDiameter(cfg.g1)
                         + (IF cfg.g1.internal THEN 5 ELSE -5) * cfg.g1.module
           /\ (out.tool = "theoretical_center_distance")
                => /\ 2 * out.value
                        = (IF cfg.g1.internal /= cfg.g2.internal
                           THEN Abs(PitchDiameter(cfg.g1) - PitchDiameter(cfg.g2))
                           ELSE PitchDiameter(cfg.g1) + PitchDiameter(cfg.g2))
                   /\ out.value = theoretical_center_distance(cfg.g2, cfg.g1)

\* C26 witness: the centre distance of an internal ring and a smaller external
\* gear has been computed, and it is the difference of the pitch radii
C26_Witness ==
    /\ pc = "done" /\ out.tool = "theoretical_center_distance"
    /\ cfg.g1.internal /\ ~cfg.g2.internal
    /\ PitchDiameter(cfg.g1) > PitchDiameter(cfg.g2)
    /\ 2 * out.value = PitchDiameter(cfg.g1) - PitchDiameter(cfg.g2)

-----------------------------------------------------------------------------
(* Specification SpecParse: parse_svg_path of detect_overlaps.py on a path   *)
(* that starts with M; a command is [cmd, p], p the end point its arguments  *)
(* name (an A command carries its seven arguments, of which the last two     *)
(* are read), Z has no arguments                                             *)

MaxCommands == 4

PathPoints == { <<0, 0>>, <<10, 0>>, <<10, 10>> }

NoPoint == << >>

PathCommands ==
    [cmd : {"M", "L", "A"}, p : PathPoints] \cup { [cmd |-> "Z", p |-> NoPoint] }

CommandLists ==
    { l \in UNION { [1..n -> PathCommands] : n \in 2..MaxCommands } :
        l[1].cmd = "M" }

LineSegment(p1, p2, gear_id) == [p1 |-> p1, p2 |-> p2, gear_id |-> gear_id]

\* one pass of the body of "for cmd, args in commands" on the state
\* (segments, current_pos, first_pos)
ParseCommand(st, c, gear_id) ==
    IF c.cmd = "M"
    THEN [st EXCEPT !.current_pos = c.p, !.first_pos = c.p]
    ELSE IF c.cmd \in {"L", "A"}
    THEN [st EXCEPT
            !.segments = IF st.current_pos /= NoPoint
                         THEN Append(@, LineSegment(st.current_pos, c.p, gear_id))
                         ELSE @,
            !.current_pos = c.p]
    ELSE IF st.current_pos /= NoPoint /\ st.first_pos /= NoPoint
    THEN [st EXCEPT
            !.segments = Append(@, LineSegment(st.current_pos, st.first_pos,
                                               gear_id))]
    ELSE st

RECURSIVE ParseFrom(_, _, _, _)
ParseFrom(st, commands, k, gear_id) ==
    IF k > Len(commands) THEN st
    ELSE ParseFrom(ParseCommand(st, commands[k], gear_id), commands, k + 1,
                   gear_id)

\* parse_svg_path(path_data, gear_id)
parse_svg_path(commands, gear_id) ==
    ParseFrom([segments |-> <<>>, current_pos |-> NoPoint,
               first_pos |-> NoPoint], commands, 1, gear_id).segments

InitParse ==
    /\ pc = "parse"
    /\ cfg = [gear_id |-> "a"]
    /\ out = None
    /\ demands = <<>>
    /\ sweep = None
    /\ doc \in CommandLists

RunParseSvgPath ==
    /\ pc = "parse"
    /\ out' = [tool |-> "parse_svg_path",
               segments |-> parse_svg_path(doc, cfg.gear_id)]
    /\ pc' = "done"
    /\ UNCHANGED <<cfg, demands, sweep, doc>>

NextParse == RunParseSvgPath

SpecParse == InitParse /\ [][NextParse]_vars

\* the positions in the path of the commands that draw: L, A and Z
Drawing(commands) == { i \in 1..Len(commands) : commands[i].cmd /= "M" }

\* the position of the command that draws the j-th segment
DrawnBy(commands, j) ==
    CHOOSE i \in Drawing(commands) :
        Cardinality({ k \in Drawing(commands) : k <= i }) = j

\* the point of the most recent M before position i
MostRecentMove(commands, i) ==
    commands[CHOOSE m \in 1..i :
                /\ commands[m].cmd = "M"
                /\ \A k \in (m + 1)..i : commands[k].cmd /= "M"].p

\* the point the pen is at after the command at position i: the end point of
\* M, L and A, the point of the most recent M after Z
PenAfter(commands, i) ==
    IF commands[i].cmd = "Z" THEN MostRecentMove(commands, i)
    ELSE commands[i].p

\* C27: a path that starts with M yields exactly one segment for each L, A
\* and Z, tagged with the gear id; the segment of a Z ends at the point of the
\* most recent M, and every segment starts where the command before it left
\* the pen, also when that command is a Z.
C27_OneSegmentPerCommandChained ==
    (pc = "done" /\ out.tool = "parse_svg_path")
        => /\ Len(out.segments) = Cardinality(Drawing(doc))
           /\ \A j \in 1..Len(out.segments) :
                LET i == DrawnBy(doc, j)
                IN  /\ out.segments[j].gear_id = cfg.gear_id
                    /\ out.segments[j].p2 = PenAfter(doc, i)
                    /\ out.segments[j].p1 = PenAfter(doc, i - 1)

-----------------------------------------------------------------------------
(* Specification SpecDoc: a tool saves its gear-train document for one       *)
(* configuration: exhaustive_phase_search.py for an aligned configuration,   *)
(* find_valid_double_planetary.py after the verdict "valid",                 *)
(* create_perfect_triangular.py when the outer planets can be placed         *)

InitDoc ==
    /\ pc = "emit"
    /\ cfg \in Configs \cup TriConfigs
    /\ out = None
    /\ demands = <<>>
    /\ sweep = None
    /\ doc = None

EmitExhaustive ==
    /\ pc = "emit"
    /\ LET phases == simulate_phase_propagation(cfg)
       IN  /\ phases.ok
           /\ LET alignment == check_phase_alignment(phases.ring_demands, cfg.R)
              IN  /\ alignment.result
                  /\ doc' = json_config(ValidConfig(cfg, phases, alignment))
    /\ out' = [tool |-> "exhaustive_phase_search"]
    /\ pc' = "saved"
    /\ UNCHANGED <<cfg, demands, sweep>>

\* find_valid_double_planetary.py up to its verdict
CheckRingPhaseAgreement ==
    /\ pc = "emit"
    /\ out' = ring_phase_agreement(cfg)
    /\ pc' = "agreed"
    /\ UNCHANGED <<cfg, demands, sweep, doc>>

\* the branch "if phase_variance < 5": the document is built and saved
EmitDoublePlanetary ==
    /\ pc = "agreed"
    /\ out.verdict = "valid"
    /\ doc' = double_planetary_config(cfg, out)
    /\ out' = [tool |-> "find_valid_double_planetary"]
    /\ pc' = "saved"
    /\ UNCHANGED <<cfg, demands, sweep>>

EmitPerfectTriangular ==
    /\ pc = "emit"
    /\ ~MathDomainError(cfg)
    /\ doc' = perfect_triangular_config(cfg)
    /\ out' = [tool |-> "create_perfect_triangular"]
    /\ pc' = "saved"
    /\ UNCHANGED <<cfg, demands, sweep>>

NextDoc ==
    \/ EmitExhaustive \/ CheckRingPhaseAgreement \/ EmitDoublePlanetary
    \/ EmitPerfectTriangular

SpecDoc == InitDoc /\ [][NextDoc]_vars

\* the "$name" values of an entity
References(entity) ==
    { v.ref : v \in { w \in {entity.teeth, entity.module, entity.pressure_angle} :
                        "ref" \in DOMAIN w } }

\* the document has a mesh constraint with these two gears
Meshes(document, gear1, gear2) ==
    \E k \in 1..Len(document.constraints) :
        /\ document.constraints[k].type = "mesh"
        /\ document.constraints[k].gear1 = gear1
        /\ document.constraints[k].gear2 = gear2

\* C30: in every saved document the entity ids are pairwise distinct, gear1
\* and gear2 of every mesh constraint are ids of gear entities of the document,
\* and every "$name" is a key of parameters; in the triangular document outer
\* planet i meshes with inner planet i, with inner planet (i mod 6) + 1 and
\* with the ring.
C30_IntactReferences ==
    (pc = "saved")
        => /\ \A k, l \in 1..Len(doc.entities) :
                k /= l => doc.entities[k].id /= doc.entities[l].id
           /\ \A k \in 1..Len(doc.constraints) :
                \A id \in {doc.constraints[k].gear1, doc.constraints[k].gear2} :
                    \E l \in 1..Len(doc.entities) :
                        /\ doc.entities[l].id = id
                        /\ doc.entities[l].type = "gear"
           /\ \A k \in 1..Len(doc.entities) :
                References(doc.entities[k]) \subseteq DOMAIN doc.parameters
           /\ (out.tool = "create_perfect_triangular")
                => \A i \in 1..6 :
                      /\ Meshes(doc, PlanetId("inner", i), PlanetId("outer", i))
                      /\ Meshes(doc, PlanetId("inner", (i % 6) + 1),
                                PlanetId("outer", i))
                      /\ Meshes(doc, PlanetId("ring", 0), PlanetId("outer", i))

\* C30 witness: the triangular document of 36/18/12/72 has been saved, with
\* its fourteen gears and twenty-four mesh constraints, the sixth outer planet
\* meshed with the first inner planet
C30_Witness ==
    /\ pc = "saved" /\ out.tool = "create_perfect_triangular"
    /\ cfg.S = 36 /\ cfg.I = 18 /\ cfg.O = 12 /\ cfg.R = 72
    /\ Len(doc.entities) = 14 /\ Len(doc.constraints) = 24
    /\ Meshes(doc, PlanetId("inner", 1), PlanetId("outer", 6))

=============================================================================
